---- MODULE Spec2Model ----
(***************************************************************************)
(* The crawl orchestrator of app/core/interactor.py                        *)
(* (WebScraperInteractor.run_scraping and _process_url_pipeline) as a      *)
(* state machine.  Every `await` of the code is a suspension point: one    *)
(* action runs the code from the return of one awaited port call up to the *)
(* next awaited call.  The four ports (scraper, storage, parser,           *)
(* converter) are black boxes whose results are chosen nondeterministically*)
(* (a value, or an exception of class Exception).  Several calls of        *)
(* run_scraping may overlap on the event loop; they share the class-level  *)
(* semaphore.                                                              *)
(***************************************************************************)
EXTENDS Integers, Sequences, FiniteSets, TLC

\* ---- bounds of the model ------------------------------------------------
\* settings.MAX_CONCURRENT_REQUESTS and settings.MAX_CRAWL_DEPTH are
\* configuration values (config.py:20-22, overridable from the environment);
\* the model draws them from 1..MaxConcurrent and 0..MaxDepth.
MaxConcurrent == 2
MaxDepth == 2
\* longest list a call of extract_links returns
MaxLinks == 2

\* calls of run_scraping that may overlap
Runs == {1, 2}

\* the URL strings that requests and extract_links can name
URLs == {"https://s.io/", "https://s.io/a", "https://s.io/b", "https://s.io/c"}

\* the pages of the smaller site crawled under fairness and by overlapping
\* runs
SmallSite == {"https://s.io/", "https://s.io/a", "https://s.io/b"}

\* a site of eight pages with fixed links, given with the list extract_links
\* returns for each page
SiteLinks ==
    [u \in {"https://s.io/", "https://s.io/a", "https://s.io/b",
            "https://s.io/c", "https://s.io/x", "https://s.io/w",
            "https://s.io/z", "https://s.io/v"} |->
        CASE u = "https://s.io/" ->
                <<"https://s.io/a", "https://s.io/b", "https://s.io/c">>
          [] u = "https://s.io/a" -> <<"https://s.io/x">>
          [] u = "https://s.io/c" -> <<"https://s.io/w", "https://s.io/z">>
          [] u = "https://s.io/x" -> <<"https://s.io/w">>
          [] u = "https://s.io/w" -> <<"https://s.io/v">>
          [] OTHER -> <<>>]

\* the configured default target
DefaultTarget == "https://s.io/"

\* Python's None (request.url absent, fetch_page result absent)
None == "<None>"

\* messages of the exceptions a port may raise
Messages == {"boom"}

\* str(x) as used by the f-strings of the code
Str(x) == IF x = None THEN "None" ELSE x

\* what fetch_page may return: page source, empty string, or None
FetchResults == {"<html>", "", None}

\* lists of at most MaxLinks distinct URLs (the results of extract_links)
LinkLists ==
    {l \in UNION {[1..n -> URLs] : n \in 0..MaxLinks} :
        \A i, j \in DOMAIN l : i # j => l[i] # l[j]}

\* lists that name one page twice (two anchors whose hrefs differ and resolve
\* to one page are not merged by the parser's set of strings)
Repeats == {<<u, u>> : u \in SmallSite}

\* every list extract_links returns in the model
AllLinkLists ==
    LinkLists \cup {SiteLinks[u] : u \in DOMAIN SiteLinks} \cup Repeats
        \cup {<<"https://s.io">>}

\* the lists of LinkLists that name pages of U only
AnyLinks(U) == {l \in LinkLists : \A j \in DOMAIN l : l[j] \in U}

\* what convert returns, and the title that parse and clean hand on
Markdown == "# md"
Title == "T"

\* cleaned_data["cleaned_content"] of a page with content, and what
\* converter.convert returns for a content (converter/service.py:31-53)
Content == "<main>"
Converted(content) == IF content = "" THEN "" ELSE Markdown

\* time.time() when the metadata is built
Now == "time.time()"

\* the awaited port calls of one pipeline, in program order
PortOps == {"fetch_page", "save_html", "parse", "clean", "convert",
            "save_md", "extract_links"}

VARIABLES
    settings,      \* the Settings singleton of config.py
    pc,            \* per run: position of run_scraping
    request,       \* per run: request.url (None when absent)
    start_url,     \* per run: local start_url
    stats,         \* per run: dict stats
    visited_urls,  \* per run: set visited_urls
    to_visit,      \* per run: list to_visit of (url, depth)
    tasks,         \* per run: the pipeline coroutines handed to gather
    result,        \* per run: what run_scraping gave its caller
    semaphore,     \* free permits of WebScraperInteractor.semaphore
    startResult,   \* history: per run, how the await of start_session ended
    loopExit,      \* history: per run, how the while loop was left
    calls,         \* history: per run and URL, number of calls of each port
    sessionCalls,  \* history: per run, calls of start_session / stop_session
    batchNo,       \* history: per run, number of batches drained
    drainedIn,     \* history: per run, set of <<url, batch>> drained
    discovered,    \* history: per run, set of <<url, batch of the finder>>
    drainedDepths, \* history: per run, the depths of the entries put into
                   \* batches, in the order of draining
    reached,       \* history: per run, the pipelines <<batch, index>> that
                   \* reached processed += 1, failed += 1, the handler
    saves,         \* history: per run, URL and kind, the calls of
                   \* storage.save as <<content, metadata>>
    env,           \* the callers, the site and the ports: which calls of
                   \* run_scraping are made and with which request.url, the
                   \* URLs the site's links can name, the lists
                   \* extract_links can return for each page, and the
                   \* pipeline port calls that can raise
    api,           \* app/infra/api/v1/endpoints.py: the task store, the
                   \* background jobs and the last HTTP response
    disk,          \* app/core/storage/service.py: the files under the
                   \* storage directories and the last call's outcome
    page,          \* app/core/parser/service.py: the document handed to
                   \* clean or extract_links and what the call returned
    text,          \* app/core/converter/service.py: the input of convert,
                   \* markdownify's output and what convert returned
    browser        \* app/core/scraper/service.py: the driver of the
                   \* SeleniumScraperService, its tabs, and the threads that
                   \* run _init_driver_sync, _fetch_page_sync and
                   \* _quit_driver_sync

\* the state of the crawl orchestrator
crawl == <<env, settings, startResult, loopExit, pc, request, start_url,
           stats, visited_urls, to_visit, tasks, result, semaphore, calls,
           sessionCalls, batchNo, drainedIn, discovered, drainedDepths,
           reached, saves>>

\* the state of the services around it
outside == <<api, disk, page, text, browser>>

vars == <<crawl, outside>>

\* a service that is not part of the specification at hand
Idle == [on |-> FALSE]

\* ---- helpers -------------------------------------------------------------

TARGET_URL == settings.TARGET_URL
MAX_CRAWL_DEPTH == settings.MAX_CRAWL_DEPTH
MAX_CONCURRENT_REQUESTS == settings.MAX_CONCURRENT_REQUESTS

\* the configurations the model draws from
Configurations ==
    [MAX_CONCURRENT_REQUESTS : 1..MaxConcurrent,
     MAX_CRAWL_DEPTH : 0..MaxDepth,
     TARGET_URL : {DefaultTarget}]

\* a local variable that has not been assigned yet
Unset == "<unset>"

NoCalls == [u \in env.urls |-> [op \in PortOps |-> 0]]

NoSaves == [u \in env.urls |-> [kind \in {"html", "md"} |-> <<>>]]

NoneReached == [processed |-> {}, failed |-> {}, caught |-> {}]

\* the call without metadata of line 114
NoMetadata == None

\* metadata that carries the depth of the page's links
Metadata_LinkDepth(t) ==
    [title |-> t.title, depth |-> t.depth + 1, crawled_at |-> Now]

\* the metadata dict of lines 125-129
Metadata(t) == [title |-> t.title, depth |-> t.depth, crawled_at |-> Now]

\* storage.save(url, content, kind, metadata) is called
Saved(sv, r, url, content, kind, metadata) ==
    [sv EXCEPT ![r][url][kind] = Append(@, <<content, metadata>>)]

\* the pipeline <<batch, index>> of task i of run r
Pipeline(r, i) == <<tasks[r][i].batch, i>>

EmptyStats == [processed |-> 0, failed |-> 0, errors |-> <<>>]

\* calls[r][u][op] += 1
Called(c, r, u, op) == [c EXCEPT ![r][u][op] = @ + 1]

\* stats["errors"].append(f"{url}: {str(e)}")
PipelineError(url, msg) == url \o ": " \o msg

\* f"Failed to start scraper for {request.url}"
StartFailure(requestUrl) == "Failed to start scraper for " \o Str(requestUrl)

\* a drain that does not test visited_urls
RECURSIVE DrainBatch_NoVisitedTest(_, _, _)
DrainBatch_NoVisitedTest(tv, vis, batch) ==
    IF tv # <<>> /\ Len(batch) < MAX_CONCURRENT_REQUESTS
    THEN LET e == Head(tv) IN
         DrainBatch_NoVisitedTest(Tail(tv), vis \cup {e.url},
                                  Append(batch, e))
    ELSE [to_visit |-> tv, visited_urls |-> vis, current_batch |-> batch]

\* the inner while loop that fills current_batch
RECURSIVE DrainBatch(_, _, _)
DrainBatch(tv, vis, batch) ==
    IF tv # <<>> /\ Len(batch) < MAX_CONCURRENT_REQUESTS
    THEN LET e == Head(tv) IN
         IF e.url \notin vis
         THEN DrainBatch(Tail(tv), vis \cup {e.url}, Append(batch, e))
         ELSE DrainBatch(Tail(tv), vis, batch)
    ELSE [to_visit |-> tv, visited_urls |-> vis, current_batch |-> batch]

\* the coroutines created for a batch; none has run yet
NewTasks(batch, k) ==
    [i \in DOMAIN batch |->
        [url |-> batch[i].url, depth |-> batch[i].depth,
         at |-> "created", html |-> Unset, title |-> Unset,
         content |-> Unset, e |-> Unset, batch |-> k]]

\* a wait that returns as soon as one coroutine has finished
GatherDone_FirstCompleted(r) ==
    \E i \in DOMAIN tasks[r] : tasks[r][i].at = "done"

\* `await asyncio.gather(*tasks)` returns when every coroutine has finished
GatherDone(r) == \A i \in DOMAIN tasks[r] : tasks[r][i].at = "done"

\* an admission gate that never blocks
SemaphoreFree_Unbounded == TRUE

\* `async with self.semaphore` admits a coroutine while a permit is free
SemaphoreFree == semaphore > 0

\* every link of the list appended, whether visited or not
NewEntries_Unfiltered(links, vis, depth) ==
    [j \in DOMAIN links |-> [url |-> links[j], depth |-> depth + 1]]

\* the links a pipeline appends: those not in visited_urls, at depth + 1
RECURSIVE NewEntries(_, _, _)
NewEntries(links, vis, depth) ==
    IF links = <<>> THEN <<>>
    ELSE LET rest == NewEntries(Tail(links), vis, depth) IN
         IF Head(links) \notin vis
         THEN <<[url |-> Head(links), depth |-> depth + 1]>> \o rest
         ELSE rest

\* ---- initial state ---------------------------------------------------------

Start ==
    /\ pc = [r \in Runs |-> "idle"]
    /\ request = [r \in Runs |-> Unset]
    /\ start_url = [r \in Runs |-> Unset]
    /\ stats = [r \in Runs |-> EmptyStats]
    /\ visited_urls = [r \in Runs |-> {}]
    /\ to_visit = [r \in Runs |-> <<>>]
    /\ tasks = [r \in Runs |-> <<>>]
    /\ result = [r \in Runs |-> [pending |-> TRUE]]
    /\ semaphore = MAX_CONCURRENT_REQUESTS
    /\ startResult = [r \in Runs |-> "pending"]
    /\ loopExit = [r \in Runs |-> "no"]
    /\ calls = [r \in Runs |-> NoCalls]
    /\ sessionCalls = [r \in Runs |-> [start |-> 0, stop |-> 0]]
    /\ batchNo = [r \in Runs |-> 0]
    /\ drainedIn = [r \in Runs |-> {}]
    /\ discovered = [r \in Runs |-> {}]
    /\ drainedDepths = [r \in Runs |-> <<>>]
    /\ reached = [r \in Runs |-> NoneReached]
    /\ saves = [r \in Runs |-> NoSaves]

\* one call of run_scraping for the default target; every port call can fail
Init ==
    /\ settings \in Configurations
    /\ env = [runs |-> {1}, requests |-> {None}, urls |-> URLs,
              site |-> [u \in URLs |-> AnyLinks(URLs)],
              raising |-> PortOps,
              cleaned |-> {Content}]
    /\ Start
    /\ api = Idle /\ disk = Idle /\ page = Idle /\ text = Idle
    /\ browser = Idle

\* one call of run_scraping, for the default target or for a given URL, on
\* the smaller site
InitFair ==
    /\ settings \in Configurations
    /\ env = [runs |-> {1}, requests |-> {None, "https://s.io/a"},
              urls |-> SmallSite,
              site |-> [u \in SmallSite |-> AnyLinks(SmallSite)],
              raising |-> PortOps,
              cleaned |-> {Content}]
    /\ Start
    /\ api = Idle /\ disk = Idle /\ page = Idle /\ text = Idle
    /\ browser = Idle

\* two overlapping calls of run_scraping for the default target; of the
\* pipeline's port calls only fetch_page fails
InitOverlap ==
    /\ settings \in {c \in Configurations : c.MAX_CRAWL_DEPTH = 1}
    /\ env = [runs |-> Runs, requests |-> {None}, urls |-> SmallSite,
              site |-> [u \in SmallSite |-> AnyLinks(SmallSite)],
              raising |-> {"fetch_page"},
              cleaned |-> {Content}]
    /\ Start
    /\ api = Idle /\ disk = Idle /\ page = Idle /\ text = Idle
    /\ browser = Idle

\* one call of run_scraping for the default target on the site SiteLinks,
\* two pipelines at a time and one level deeper than MaxDepth; of the
\* pipeline's port calls only fetch_page fails
InitSite ==
    /\ settings = [MAX_CONCURRENT_REQUESTS |-> MaxConcurrent,
                   MAX_CRAWL_DEPTH |-> MaxDepth + 1,
                   TARGET_URL |-> DefaultTarget]
    /\ env = [runs |-> {1}, requests |-> {None}, urls |-> DOMAIN SiteLinks,
              site |-> [u \in DOMAIN SiteLinks |-> {SiteLinks[u]}],
              raising |-> {"fetch_page"},
              cleaned |-> {Content}]
    /\ Start
    /\ api = Idle /\ disk = Idle /\ page = Idle /\ text = Idle
    /\ browser = Idle

\* ---- the caller of run_scraping: _background_scrape_wrapper ----------------

\* dict.get(k, default)
Get(d, k, default) == IF k \in DOMAIN d THEN d[k] ELSE default

\* dict.update(u)
Update(d, u) ==
    [k \in DOMAIN d \cup DOMAIN u |-> IF k \in DOMAIN u THEN u[k] ELSE d[k]]

\* run_scraping is awaited by a caller of the environment or, where the API
\* is part of the specification, by the background task of a triggered job
\* with the job's request (endpoints.py:35)
CalledBy(r, url) ==
    api.on => /\ api.job[r] # None
              /\ url = api.tasks_store[api.job[r]].url

\* a job that counts as failed as soon as one of its pages failed
Completed_FailedPages(entry, stats_) ==
    Update(entry, [status |-> IF Get(stats_, "failed", 0) > 0
                              THEN "failed" ELSE "completed",
                   completed_at |-> Now,
                   pages_processed |-> Get(stats_, "processed", 0),
                   pages_failed |-> Get(stats_, "failed", 0),
                   progress |-> 100])

\* endpoints.py:37-43: the entry of a job whose run returned stats
Completed(entry, stats_) ==
    Update(entry, [status |-> "completed",
                   completed_at |-> Now,
                   pages_processed |-> Get(stats_, "processed", 0),
                   pages_failed |-> Get(stats_, "failed", 0),
                   progress |-> 100])

\* endpoints.py:48-53: the entry of a job whose run raised exc
Failed(entry, exc) ==
    Update(entry, [status |-> "failed",
                   error |-> Str(exc),
                   completed_at |-> Now])

\* a wrapper that writes the outcome of its run into every entry of the store
Resume_AllEntries(r, how, value) ==
    api' = IF api.on
           THEN [api EXCEPT !.tasks_store =
                    [id \in DOMAIN @ |->
                        IF how = "return" THEN Completed(@[id], value)
                        ELSE Failed(@[id], value)]]
           ELSE api

\* run_scraping returns `value` to its caller, or raises it: the background
\* wrapper goes on to the end without another await
Resume(r, how, value) ==
    api' = IF api.on
           THEN [api EXCEPT !.tasks_store[api.job[r]] =
                    IF how = "return" THEN Completed(@, value)
                    ELSE Failed(@, value)]
           ELSE api

\* ---- run_scraping ----------------------------------------------------------

\* run_scraping is called: lines 36-45, up to the await of start_session
Call(r, url) ==
    /\ r \in env.runs
    /\ url \in env.requests
    /\ CalledBy(r, url)
    /\ pc[r] = "idle"
    /\ pc' = [pc EXCEPT ![r] = "start_session"]
    /\ request' = [request EXCEPT ![r] = url]
    /\ start_url' = [start_url EXCEPT ![r] =
                        IF url # None THEN Str(url) ELSE TARGET_URL]
    /\ sessionCalls' = [sessionCalls EXCEPT ![r].start = @ + 1]
    /\ UNCHANGED <<env, settings, loopExit, startResult, stats, visited_urls,
                   to_visit, tasks, result, semaphore, calls, batchNo,
                   drainedIn, discovered,
                   drainedDepths, reached, saves, outside>>

\* a finally block that does not close the session
Finally_NoStop(r, how) ==
    /\ pc' = [pc EXCEPT ![r] = "stop_session"]
    /\ loopExit' = [loopExit EXCEPT ![r] = how]
    /\ UNCHANGED <<sessionCalls, tasks, batchNo, drainedIn, drainedDepths>>

\* the loop is left (by its test or by `break`): the `finally` block up to
\* the await of stop_session
Finally(r, how) ==
    /\ pc' = [pc EXCEPT ![r] = "stop_session"]
    /\ loopExit' = [loopExit EXCEPT ![r] = how]
    /\ sessionCalls' = [sessionCalls EXCEPT ![r].stop = @ + 1]
    /\ UNCHANGED <<tasks, batchNo, drainedIn, drainedDepths>>

\* one pass of `while to_visit:` from the loop test to the await of gather,
\* or out of the loop into the finally block
LoopIteration(r, tv, vis) ==
    IF tv = <<>>
    THEN /\ to_visit' = [to_visit EXCEPT ![r] = tv]
         /\ visited_urls' = [visited_urls EXCEPT ![r] = vis]
         /\ Finally(r, "while")
    ELSE LET d == DrainBatch(tv, vis, <<>>) IN
         /\ to_visit' = [to_visit EXCEPT ![r] = d.to_visit]
         /\ visited_urls' = [visited_urls EXCEPT ![r] = d.visited_urls]
         /\ IF d.current_batch = <<>>
            THEN Finally(r, "break")
            ELSE LET k == batchNo[r] + 1 IN
                 /\ pc' = [pc EXCEPT ![r] = "gather"]
                 /\ batchNo' = [batchNo EXCEPT ![r] = k]
                 /\ tasks' = [tasks EXCEPT ![r] =
                        SelectSeq(@, LAMBDA t : t.at # "done")
                            \o NewTasks(d.current_batch, k)]
                 /\ drainedIn' = [drainedIn EXCEPT ![r] = @ \cup
                        {<<d.current_batch[i].url, k>> :
                            i \in DOMAIN d.current_batch}]
                 /\ drainedDepths' = [drainedDepths EXCEPT ![r] = @ \o
                        [i \in DOMAIN d.current_batch |->
                            d.current_batch[i].depth]]
                 /\ UNCHANGED <<sessionCalls, loopExit>>

\* a session-start failure that is logged but not returned from
StartSessionFalse_FallThrough(r) ==
    /\ pc[r] = "start_session"
    /\ startResult' = [startResult EXCEPT ![r] = "false"]
    /\ stats' = [stats EXCEPT ![r] = EmptyStats]
    /\ LoopIteration(r, <<[url |-> start_url[r], depth |-> 0]>>, {})
    /\ UNCHANGED <<env, settings, request, start_url, result, semaphore,
                   calls, discovered, reached, saves, outside>>

\* start_session returned False: lines 45-47
StartSessionFalse(r) ==
    /\ pc[r] = "start_session"
    /\ startResult' = [startResult EXCEPT ![r] = "false"]
    /\ pc' = [pc EXCEPT ![r] = "returned"]
    /\ result' = [result EXCEPT ![r] = [error |-> StartFailure(request[r])]]
    /\ Resume(r, "return", result'[r])
    /\ UNCHANGED <<env, settings, loopExit, request, start_url, stats,
                   visited_urls, to_visit, tasks, semaphore, calls,
                   sessionCalls, batchNo, drainedIn, discovered,
                   drainedDepths, reached, saves, disk, page, text, browser>>

\* a visited set kept on the interactor and shared by its runs
StartSessionTrue_SharedVisited(r) ==
    /\ pc[r] = "start_session"
    /\ startResult' = [startResult EXCEPT ![r] = "true"]
    /\ stats' = [stats EXCEPT ![r] = EmptyStats]
    /\ LoopIteration(r, <<[url |-> start_url[r], depth |-> 0]>>,
                     UNION {visited_urls[q] : q \in Runs})
    /\ UNCHANGED <<env, settings, request, start_url, result, semaphore,
                   calls, discovered, reached, saves, outside>>

\* start_session returned True: lines 49-75, up to the first await of gather
StartSessionTrue(r) ==
    /\ pc[r] = "start_session"
    /\ startResult' = [startResult EXCEPT ![r] = "true"]
    /\ stats' = [stats EXCEPT ![r] = EmptyStats]
    /\ LoopIteration(r, <<[url |-> start_url[r], depth |-> 0]>>, {})
    /\ UNCHANGED <<env, settings, request, start_url, result, semaphore,
                   calls, discovered, reached, saves, outside>>

\* start_session raised: line 45 is outside the try block
StartSessionRaises(r, msg) ==
    /\ pc[r] = "start_session"
    /\ startResult' = [startResult EXCEPT ![r] = "raised"]
    /\ pc' = [pc EXCEPT ![r] = "raised"]
    /\ result' = [result EXCEPT ![r] = [exception |-> msg]]
    /\ Resume(r, "raise", msg)
    /\ UNCHANGED <<env, settings, loopExit, request, start_url, stats,
                   visited_urls, to_visit, tasks, semaphore, calls,
                   sessionCalls, batchNo, drainedIn, discovered,
                   drainedDepths, reached, saves, disk, page, text, browser>>

\* gather returned: the next pass of the loop (lines 55-75)
BatchDone(r) ==
    /\ pc[r] = "gather"
    /\ GatherDone(r)
    /\ LoopIteration(r, to_visit[r], visited_urls[r])
    /\ UNCHANGED <<env, settings, startResult, request, start_url, stats,
                   result, semaphore, calls, discovered, reached, saves,
                   outside>>

\* stop_session returned: the rest of the finally block and `return stats`
StopSessionReturns(r) ==
    /\ pc[r] = "stop_session"
    /\ pc' = [pc EXCEPT ![r] = "returned"]
    /\ result' = [result EXCEPT ![r] = stats[r]]
    /\ Resume(r, "return", stats[r])
    /\ UNCHANGED <<env, settings, loopExit, startResult, request, start_url,
                   stats, visited_urls, to_visit, tasks, semaphore, calls,
                   sessionCalls, batchNo, drainedIn, discovered,
                   drainedDepths, reached, saves, disk, page, text, browser>>

\* stop_session raised inside the finally block: the exception leaves
\* run_scraping
StopSessionRaises(r, msg) ==
    /\ pc[r] = "stop_session"
    /\ pc' = [pc EXCEPT ![r] = "raised"]
    /\ result' = [result EXCEPT ![r] = [exception |-> msg]]
    /\ Resume(r, "raise", msg)
    /\ UNCHANGED <<env, settings, loopExit, startResult, request, start_url,
                   stats, visited_urls, to_visit, tasks, semaphore, calls,
                   sessionCalls, batchNo, drainedIn, discovered,
                   drainedDepths, reached, saves, disk, page, text, browser>>

\* ---- _process_url_pipeline -------------------------------------------------

\* the coroutine, its locals as in ts, moves to the await of the port call
\* `op`
Await(r, i, op, ts) ==
    /\ tasks' = [ts EXCEPT ![r][i].at = op]
    /\ calls' = Called(calls, r, tasks[r][i].url, op)

\* a coroutine that ends without giving its permit back
Release_Leak(r, i, ts) ==
    /\ tasks' = [ts EXCEPT ![r][i].at = "done"]
    /\ semaphore' = semaphore

\* a coroutine that keeps its permit when it ends on an exception
Release_NotOnException(r, i, ts) ==
    /\ tasks' = [ts EXCEPT ![r][i].at = "done"]
    /\ semaphore' = IF ts[r][i].e # Unset THEN semaphore ELSE semaphore + 1

\* the coroutine, its locals as in ts, leaves `async with self.semaphore`
\* and ends
Release(r, i, ts) ==
    /\ tasks' = [ts EXCEPT ![r][i].at = "done"]
    /\ semaphore' = semaphore + 1

\* line 106-108: enter the semaphore, call fetch_page
Admit(r, i) ==
    /\ i \in DOMAIN tasks[r]
    /\ tasks[r][i].at = "created"
    /\ SemaphoreFree
    /\ semaphore' = semaphore - 1
    /\ Await(r, i, "fetch_page", tasks)
    /\ UNCHANGED <<env, settings, loopExit, startResult, pc, request,
                   start_url, stats, visited_urls, to_visit, result,
                   sessionCalls, batchNo, drainedIn, discovered,
                   drainedDepths, reached, saves, outside>>

\* an empty fetch that is counted but not returned from
FetchReturns_NoReturn(r, i, html) ==
    /\ i \in DOMAIN tasks[r]
    /\ tasks[r][i].at = "fetch_page"
    /\ stats' = [stats EXCEPT ![r].failed =
                    IF html = "" \/ html = None THEN @ + 1 ELSE @]
    /\ reached' = [reached EXCEPT ![r].failed =
                    IF html = "" \/ html = None
                    THEN @ \cup {Pipeline(r, i)} ELSE @]
    /\ Await(r, i, "save_html", [tasks EXCEPT ![r][i].html = html])
    /\ saves' = Saved(saves, r, tasks[r][i].url, html, "html", NoMetadata)
    /\ UNCHANGED <<env, settings, loopExit, startResult, pc, request,
                   start_url, visited_urls, to_visit, result, semaphore,
                   sessionCalls, batchNo, drainedIn, discovered,
                   drainedDepths, outside>>

\* lines 108-114: fetch_page returned
FetchReturns(r, i, html) ==
    /\ i \in DOMAIN tasks[r]
    /\ tasks[r][i].at = "fetch_page"
    /\ IF html = "" \/ html = None
       THEN /\ stats' = [stats EXCEPT ![r].failed = @ + 1]
            /\ reached' = [reached EXCEPT ![r].failed =
                                @ \cup {Pipeline(r, i)}]
            /\ Release(r, i, [tasks EXCEPT ![r][i].html = html])
            /\ UNCHANGED <<calls, saves>>
       ELSE /\ Await(r, i, "save_html", [tasks EXCEPT ![r][i].html = html])
            /\ saves' = Saved(saves, r, tasks[r][i].url, html, "html",
                              NoMetadata)
            /\ UNCHANGED <<stats, semaphore, reached>>
    /\ UNCHANGED <<env, settings, loopExit, startResult, pc, request,
                   start_url, visited_urls, to_visit, result, sessionCalls,
                   batchNo, drainedIn, discovered, drainedDepths, outside>>

\* a pipeline that cleans the page before it parses it
NextOp_CleanBeforeParse(op) ==
    CASE op = "save_html" -> "clean"
      [] op = "clean" -> "parse"
      [] op = "parse" -> "convert"
      [] op = "convert" -> "save_md"

\* a port call that returned and is followed by the next call:
\* lines 114-116, 116-117, 117-123, 123-131
NextOp(op) ==
    CASE op = "save_html" -> "parse"
      [] op = "parse" -> "clean"
      [] op = "clean" -> "convert"
      [] op = "convert" -> "save_md"

\* the locals of task t after the port call t.at returned: cleaned_data
\* carries the title that the metadata reads and the content that convert
\* is called with
AfterReturn(t, content) ==
    IF t.at = "clean" THEN [t EXCEPT !.title = Title, !.content = content]
    ELSE t

\* a pipeline that takes an empty cleaned content as a failed page
StepReturns_EmptyFails(r, i, content) ==
    /\ i \in DOMAIN tasks[r]
    /\ tasks[r][i].at \in {"save_html", "parse", "clean", "convert"}
    /\ content \in env.cleaned
    /\ LET t == AfterReturn(tasks[r][i], content) IN
       IF t.at = "clean" /\ t.content = ""
       THEN /\ stats' = [stats EXCEPT ![r].failed = @ + 1]
            /\ reached' = [reached EXCEPT ![r].failed =
                                @ \cup {Pipeline(r, i)}]
            /\ Release(r, i, [tasks EXCEPT ![r][i] = t])
            /\ UNCHANGED <<calls, saves>>
       ELSE /\ Await(r, i, NextOp(t.at), [tasks EXCEPT ![r][i] = t])
            /\ saves' = IF t.at = "convert"
                        THEN Saved(saves, r, t.url, Converted(t.content),
                                   "md", Metadata(t))
                        ELSE saves
            /\ UNCHANGED <<stats, semaphore, reached>>
    /\ UNCHANGED <<env, settings, loopExit, startResult, pc, request,
                   start_url, visited_urls, to_visit, result,
                   sessionCalls, batchNo, drainedIn, discovered,
                   drainedDepths, outside>>

\* lines 114-131: a port call between the first save and the second one
\* returned; clean returns `content` as the cleaned content
StepReturns(r, i, content) ==
    /\ i \in DOMAIN tasks[r]
    /\ tasks[r][i].at \in {"save_html", "parse", "clean", "convert"}
    /\ content \in env.cleaned
    /\ LET t == AfterReturn(tasks[r][i], content) IN
       /\ Await(r, i, NextOp(t.at), [tasks EXCEPT ![r][i] = t])
       /\ saves' = IF t.at = "convert"
                   THEN Saved(saves, r, t.url, Converted(t.content), "md",
                              Metadata(t))
                   ELSE saves
    /\ UNCHANGED <<env, settings, loopExit, startResult, pc, request,
                   start_url, stats, visited_urls, to_visit, result,
                   semaphore, sessionCalls, batchNo, drainedIn, discovered,
                   drainedDepths, reached, outside>>

\* a depth test that lets a page at the depth limit look for links
SaveMdReturns_Inclusive(r, i) ==
    /\ i \in DOMAIN tasks[r]
    /\ tasks[r][i].at = "save_md"
    /\ stats' = [stats EXCEPT ![r].processed = @ + 1]
    /\ reached' = [reached EXCEPT ![r].processed = @ \cup {Pipeline(r, i)}]
    /\ IF tasks[r][i].depth <= MAX_CRAWL_DEPTH
       THEN /\ Await(r, i, "extract_links", tasks)
            /\ UNCHANGED semaphore
       ELSE /\ Release(r, i, tasks)
            /\ UNCHANGED calls
    /\ UNCHANGED <<env, settings, loopExit, startResult, pc, request,
                   start_url, visited_urls, to_visit, result, sessionCalls,
                   batchNo, drainedIn, discovered, drainedDepths, saves,
                   outside>>

\* a second save after which every dequeued URL is taken as processed
SaveMdReturns_CountsVisited(r, i) ==
    /\ i \in DOMAIN tasks[r]
    /\ tasks[r][i].at = "save_md"
    /\ stats' = [stats EXCEPT ![r].processed = Cardinality(visited_urls[r])]
    /\ reached' = [reached EXCEPT ![r].processed = @ \cup {Pipeline(r, i)}]
    /\ IF tasks[r][i].depth < MAX_CRAWL_DEPTH
       THEN /\ Await(r, i, "extract_links", tasks)
            /\ UNCHANGED semaphore
       ELSE /\ Release(r, i, tasks)
            /\ UNCHANGED calls
    /\ UNCHANGED <<env, settings, loopExit, startResult, pc, request,
                   start_url, visited_urls, to_visit, result, sessionCalls,
                   batchNo, drainedIn, discovered, drainedDepths, saves,
                   outside>>

\* lines 131-136 (and 147 when depth == max_depth): the second save returned
SaveMdReturns(r, i) ==
    /\ i \in DOMAIN tasks[r]
    /\ tasks[r][i].at = "save_md"
    /\ stats' = [stats EXCEPT ![r].processed = @ + 1]
    /\ reached' = [reached EXCEPT ![r].processed = @ \cup {Pipeline(r, i)}]
    /\ IF tasks[r][i].depth < MAX_CRAWL_DEPTH
       THEN /\ Await(r, i, "extract_links", tasks)
            /\ UNCHANGED semaphore
       ELSE /\ Release(r, i, tasks)
            /\ UNCHANGED calls
    /\ UNCHANGED <<env, settings, loopExit, startResult, pc, request,
                   start_url, visited_urls, to_visit, result, sessionCalls,
                   batchNo, drainedIn, discovered, drainedDepths, saves,
                   outside>>

\* a discovery that extends a copy of the frontier: the list the drain reads
\* is left as it was
ExtractLinksReturns_Rebinds(r, i, links) ==
    /\ i \in DOMAIN tasks[r]
    /\ tasks[r][i].at = "extract_links"
    /\ links \in env.site[tasks[r][i].url]
    /\ LET new == NewEntries(links, visited_urls[r], tasks[r][i].depth) IN
       /\ to_visit' = to_visit
       /\ discovered' = [discovered EXCEPT ![r] = @ \cup
              {<<new[j].url, tasks[r][i].batch>> : j \in DOMAIN new}]
    /\ Release(r, i, tasks)
    /\ UNCHANGED <<env, settings, loopExit, startResult, pc, request,
                   start_url, stats, visited_urls, result, calls,
                   sessionCalls, batchNo, drainedIn, drainedDepths, reached,
                   saves, outside>>

\* a discovery that marks the links it appends as visited
ExtractLinksReturns_MarksVisited(r, i, links) ==
    /\ i \in DOMAIN tasks[r]
    /\ tasks[r][i].at = "extract_links"
    /\ links \in env.site[tasks[r][i].url]
    /\ LET new == NewEntries(links, visited_urls[r], tasks[r][i].depth) IN
       /\ to_visit' = [to_visit EXCEPT ![r] = @ \o new]
       /\ visited_urls' = [visited_urls EXCEPT ![r] = @ \cup
              {new[j].url : j \in DOMAIN new}]
       /\ discovered' = [discovered EXCEPT ![r] = @ \cup
              {<<new[j].url, tasks[r][i].batch>> : j \in DOMAIN new}]
    /\ Release(r, i, tasks)
    /\ UNCHANGED <<env, settings, loopExit, startResult, pc, request,
                   start_url, stats, result, calls, sessionCalls, batchNo,
                   drainedIn, drainedDepths, reached, saves, outside>>

\* lines 136-147: extract_links returned
ExtractLinksReturns(r, i, links) ==
    /\ i \in DOMAIN tasks[r]
    /\ tasks[r][i].at = "extract_links"
    /\ links \in env.site[tasks[r][i].url]
    /\ LET new == NewEntries(links, visited_urls[r], tasks[r][i].depth) IN
       /\ to_visit' = [to_visit EXCEPT ![r] = @ \o new]
       /\ discovered' = [discovered EXCEPT ![r] = @ \cup
              {<<new[j].url, tasks[r][i].batch>> : j \in DOMAIN new}]
    /\ Release(r, i, tasks)
    /\ UNCHANGED <<env, settings, loopExit, startResult, pc, request,
                   start_url, stats, visited_urls, result, calls,
                   sessionCalls, batchNo, drainedIn, drainedDepths, reached,
                   saves, outside>>

\* an exception that takes the frontier of the run with it
PortRaises_DropsFrontier(r, i, msg) ==
    /\ i \in DOMAIN tasks[r]
    /\ tasks[r][i].at \in env.raising
    /\ stats' = [stats EXCEPT ![r].errors =
                    Append(@, PipelineError(tasks[r][i].url, msg))]
    /\ reached' = [reached EXCEPT ![r].caught = @ \cup {Pipeline(r, i)}]
    /\ to_visit' = [to_visit EXCEPT ![r] = <<>>]
    /\ Release(r, i, [tasks EXCEPT ![r][i].e = msg])
    /\ UNCHANGED <<env, settings, loopExit, startResult, pc, request,
                   start_url, visited_urls, result, calls,
                   sessionCalls, batchNo, drainedIn, discovered,
                   drainedDepths, saves, outside>>

\* an exception handler that also counts the page as failed
PortRaises_CountsFailed(r, i, msg) ==
    /\ i \in DOMAIN tasks[r]
    /\ tasks[r][i].at \in env.raising
    /\ stats' = [stats EXCEPT ![r].errors =
                    Append(@, PipelineError(tasks[r][i].url, msg)),
                              ![r].failed = @ + 1]
    /\ reached' = [reached EXCEPT ![r].caught = @ \cup {Pipeline(r, i)}]
    /\ Release(r, i, [tasks EXCEPT ![r][i].e = msg])
    /\ UNCHANGED <<env, settings, loopExit, startResult, pc, request,
                   start_url, visited_urls, to_visit, result, calls,
                   sessionCalls, batchNo, drainedIn, discovered,
                   drainedDepths, saves, outside>>

\* lines 149-151: the awaited port call raised
PortRaises(r, i, msg) ==
    /\ i \in DOMAIN tasks[r]
    /\ tasks[r][i].at \in env.raising
    /\ stats' = [stats EXCEPT ![r].errors =
                    Append(@, PipelineError(tasks[r][i].url, msg))]
    /\ reached' = [reached EXCEPT ![r].caught = @ \cup {Pipeline(r, i)}]
    /\ Release(r, i, [tasks EXCEPT ![r][i].e = msg])
    /\ UNCHANGED <<env, settings, loopExit, startResult, pc, request,
                   start_url, visited_urls, to_visit, result, calls,
                   sessionCalls, batchNo, drainedIn, discovered,
                   drainedDepths, saves, outside>>

\* ---- specification -------------------------------------------------------

TaskIds == 1..(2 * MaxConcurrent)

Next ==
    \E r \in Runs :
        \/ \E url \in URLs \cup {None} : Call(r, url)
        \/ StartSessionFalse(r)
        \/ StartSessionTrue(r)
        \/ \E msg \in Messages : StartSessionRaises(r, msg)
        \/ BatchDone(r)
        \/ StopSessionReturns(r)
        \/ \E msg \in Messages : StopSessionRaises(r, msg)
        \/ \E i \in TaskIds :
            \/ Admit(r, i)
            \/ \E html \in FetchResults : FetchReturns(r, i, html)
            \/ \E content \in env.cleaned : StepReturns(r, i, content)
            \/ SaveMdReturns(r, i)
            \/ \E links \in AllLinkLists : ExtractLinksReturns(r, i, links)
            \/ \E msg \in Messages : PortRaises(r, i, msg)

Spec == Init /\ [][Next]_vars

SpecOverlap == InitOverlap /\ [][Next]_vars

SpecSite == InitSite /\ [][Next]_vars

\* The event loop runs every coroutine that is ready, and the ports answer
\* every call: a step that stays possible is eventually taken.
FairSpec == InitFair /\ [][Next]_vars /\ WF_vars(Next)

\* ---- properties ------------------------------------------------------------

\* the pipelines of run r between the start of fetch_page and their end
InFlight(r) == {i \in DOMAIN tasks[r] : tasks[r][i].at \in PortOps}

\* run r has handed a value to its caller
Returned(r) == pc[r] = "returned"

\* C1: when start_session returns False, run_scraping returns the stats
\* value {processed: 0, failed: 1, errors: ["Failed to start scraper for
\* <seed URL of the run>"]}.
C1_StartFailureReturnsStats ==
    \A r \in Runs :
        (Returned(r) /\ startResult[r] = "false") =>
            result[r] = [processed |-> 0, failed |-> 1,
                         errors |-> <<"Failed to start scraper for "
                                        \o start_url[r]>>]

\* C2: whatever the ports do, run_scraping returns a stats value and no
\* exception leaves it.
C2_NeverPropagates ==
    \A r \in Runs :
        /\ pc[r] # "raised"
        /\ (Returned(r) /\ startResult[r] = "true") => result[r] = stats[r]

C4_NoWorkAfterStartFailure ==
    \A r \in Runs :
        startResult[r] = "false" =>
            /\ calls[r] = NoCalls
            /\ sessionCalls[r].stop = 0
            /\ tasks[r] = <<>>
            /\ Returned(r)

\* a run has returned after start_session returned False
C4_Witness ==
    \E r \in Runs :
        /\ startResult[r] = "false"
        /\ Returned(r)
        /\ sessionCalls[r].start = 1

\* C5: within one run the pipeline, and so fetch_page, is started at most
\* once for every URL, also when the URL sits in the frontier several times.
C5_AtMostOnce ==
    \A r \in Runs : \A u \in URLs :
        /\ calls[r][u]["fetch_page"] <= 1
        /\ Cardinality({i \in DOMAIN tasks[r] : tasks[r][i].url = u}) <= 1
        /\ Cardinality({k \in 1..batchNo[r] : <<u, k>> \in drainedIn[r]}) <= 1

\* a URL has been fetched while another pending entry for it is still in
\* the frontier
C5_Witness ==
    \E r \in Runs : \E u \in URLs :
        /\ calls[r][u]["fetch_page"] = 1
        /\ \E j \in DOMAIN to_visit[r] : to_visit[r][j].url = u

\* C6: at every moment at most MAX_CONCURRENT_REQUESTS pipelines are in
\* flight, counted over all runs that overlap (and so in each run).
C6_BoundedInFlight ==
    /\ Cardinality({<<r, i>> \in Runs \X TaskIds : i \in InFlight(r)})
            <= MAX_CONCURRENT_REQUESTS
    /\ \A r \in Runs : Cardinality(InFlight(r)) <= MAX_CONCURRENT_REQUESTS

\* every permit is taken while a further pipeline waits for admission
C6_Witness ==
    /\ Cardinality({<<r, i>> \in Runs \X TaskIds : i \in InFlight(r)})
            = MAX_CONCURRENT_REQUESTS
    /\ \E r \in Runs : \E i \in DOMAIN tasks[r] : tasks[r][i].at = "created"
    /\ \E r \in Runs : Cardinality(InFlight(r)) = 2

\* C7: a batch is drained only after every pipeline of the batch before it
\* has finished, and a link found while batch k runs is processed in a later
\* batch, never in batch k.
C7_BatchBarrier ==
    \A r \in Runs :
        /\ \A i \in DOMAIN tasks[r] :
              tasks[r][i].at # "done" => tasks[r][i].batch = batchNo[r]
        /\ \A d \in discovered[r] : \A k \in 1..batchNo[r] :
              <<d[1], k>> \in drainedIn[r] => k > d[2]

\* a link found while batch 1 ran is being processed in batch 2
C7_Witness ==
    \E r \in Runs : \E i \in DOMAIN tasks[r] :
        /\ tasks[r][i].batch = 2
        /\ tasks[r][i].at = "fetch_page"
        /\ <<tasks[r][i].url, 1>> \in discovered[r]
        /\ <<tasks[r][i].url, 2>> \in drainedIn[r]

\* C8: when every port call answers, every run ends: it returns (or, where
\* start_session or stop_session raised, hands that exception on), and when
\* it returns after the loop the frontier is empty.
C8_Termination ==
    /\ \A r \in Runs :
          (pc[r] = "start_session") ~> (pc[r] \in {"returned", "raised"})
    /\ [](\A r \in Runs :
            (Returned(r) /\ startResult[r] = "true") =>
                /\ to_visit[r] = <<>>
                /\ loopExit[r] \in {"while", "break"})

\* a run has returned after a frontier of already visited URLs ended the loop
C8_Witness ==
    \E r \in Runs :
        /\ Returned(r)
        /\ loopExit[r] = "break"
        /\ to_visit[r] = <<>>

\* the later port calls of a pipeline
AfterFetch == PortOps \ {"fetch_page"}

\* C9: a pipeline whose fetch_page returned an empty or absent result adds 1
\* to failed, leaves processed and errors alone, appends nothing to the
\* frontier and calls no further port for its URL.
C9_EmptyFetch ==
    /\ [](\A r \in Runs : \A i \in DOMAIN tasks[r] :
            tasks[r][i].html \in {"", None} =>
                /\ tasks[r][i].at = "done"
                /\ \A op \in AfterFetch : calls[r][tasks[r][i].url][op] = 0)
    /\ [][\A r \in Runs : \A i \in DOMAIN tasks[r] :
            (/\ i \in DOMAIN tasks'[r]
             /\ tasks[r][i].at = "fetch_page"
             /\ tasks'[r][i].html \in {"", None}) =>
                /\ stats'[r].failed = stats[r].failed + 1
                /\ stats'[r].errors = stats[r].errors
                /\ stats'[r].processed = stats[r].processed
                /\ to_visit'[r] = to_visit[r]
                /\ calls' = calls]_vars

\* a pipeline has ended on an absent fetch result and been counted as failed
C9_Witness ==
    \E r \in Runs : \E i \in DOMAIN tasks[r] :
        /\ tasks[r][i].html = None
        /\ tasks[r][i].at = "done"
        /\ stats[r].failed >= 1
        /\ stats[r].errors = <<>>

\* C10: when a port call of a pipeline raises, the pipeline catches it,
\* appends exactly the string "<url>: <message>" to errors and does not
\* change failed.
C10_PipelineException ==
    [][\A r \in Runs : \A i \in DOMAIN tasks[r] :
         (/\ i \in DOMAIN tasks'[r]
          /\ tasks[r][i].at \in PortOps
          /\ tasks[r][i].e = Unset
          /\ tasks'[r][i].e # Unset) =>
            /\ stats'[r].errors =
                  Append(stats[r].errors,
                         tasks[r][i].url \o ": " \o tasks'[r][i].e)
            /\ stats'[r].failed = stats[r].failed
            /\ stats'[r].processed = stats[r].processed
            /\ tasks'[r][i].at = "done"
            /\ pc'[r] = pc[r]]_vars

\* extract_links has raised in a pipeline that had counted its page as
\* processed
C10_Witness ==
    \E r \in Runs : \E i \in DOMAIN tasks[r] :
        /\ tasks[r][i].e = "boom"
        /\ calls[r][tasks[r][i].url]["extract_links"] = 1
        /\ stats[r].errors # <<>>
        /\ stats[r].failed = 0

\* the outcomes pipeline p of run r has reached: the two counters and the
\* exception handler
Outcomes(r, p) ==
    {o \in {"processed", "failed", "caught"} : p \in reached[r][o]}

\* C11: every pipeline that has ended has contributed to exactly one of
\* stats.processed, stats.failed and stats.errors, never to two of them; so
\* when every pipeline of the dequeued URLs has ended, the three together
\* count the dequeued URLs.
C11_ExactlyOneOutcome ==
    \A r \in Runs :
        /\ \A i \in DOMAIN tasks[r] :
               tasks[r][i].at = "done"
                   => Cardinality(Outcomes(r, Pipeline(r, i))) = 1
        /\ (startResult[r] = "true" /\ GatherDone(r))
               => stats[r].processed + stats[r].failed
                      + Len(stats[r].errors) = Cardinality(visited_urls[r])

\* C12: in a run whose session started, processed + failed never exceeds the
\* number of URLs dequeued (the size of visited_urls), and neither processed
\* nor failed ever decreases.
C12_Conservation ==
    [][\A r \in Runs :
           /\ stats'[r].processed >= stats[r].processed
           /\ stats'[r].failed >= stats[r].failed
           /\ startResult'[r] = "true"
                  => stats'[r].processed + stats'[r].failed
                         <= Cardinality(visited_urls'[r])]_vars

\* both counters are positive and together count every dequeued URL
C12_Witness ==
    \E r \in Runs :
        /\ startResult[r] = "true"
        /\ stats[r].processed >= 1
        /\ stats[r].failed >= 1
        /\ stats[r].processed + stats[r].failed = Cardinality(visited_urls[r])

\* the entries that a step appends to the frontier of run r
Appended(r) == SubSeq(to_visit'[r], Len(to_visit[r]) + 1, Len(to_visit'[r]))

Links(u) == CHOOSE l \in env.site[u] : TRUE

\* the pages at most n links away from the pages of S
RECURSIVE Within(_, _)
Within(S, n) ==
    IF n = 0 THEN S
    ELSE Within(S \cup UNION {{Links(u)[j] : j \in DOMAIN Links(u)} : u \in S},
                n - 1)

\* no fetch of run r came back empty and no port call of its pipelines raised
AllSucceeded(r) == reached[r].failed = {} /\ reached[r].caught = {}

\* C14: when the session starts, every fetch returns HTML and no port
\* raises, the run processes exactly the pages at most MAX_CRAWL_DEPTH links
\* away from the seed, each once: processed is their number, failed is 0 and
\* errors is empty.
C14_CrawlComplete ==
    \A r \in Runs :
        (Returned(r) /\ startResult[r] = "true" /\ AllSucceeded(r))
            => LET pages == Within({start_url[r]}, MAX_CRAWL_DEPTH) IN
               /\ result[r].processed = Cardinality(pages)
               /\ result[r].failed = 0
               /\ result[r].errors = <<>>
               /\ \A u \in pages : calls[r][u].fetch_page = 1

\* the number of calls of storage.save run r made for the URLs of U
RECURSIVE SaveCount(_, _)
SaveCount(r, U) ==
    IF U = {} THEN 0
    ELSE LET u == CHOOSE v \in U : TRUE IN
         Len(saves[r][u].html) + Len(saves[r][u].md)
             + SaveCount(r, U \ {u})

\* C15: for every URL counted in processed, storage.save was called exactly
\* twice: once with kind "html" and the fetched HTML, once with kind "md",
\* the converter's output and the metadata {title, depth, crawled_at} whose
\* depth is the depth the URL was dequeued at; a run in which every pipeline
\* succeeded returns after 2 * processed calls of save.
C15_TwoSaves ==
    \A r \in Runs :
        /\ \A i \in DOMAIN tasks[r] :
               Pipeline(r, i) \in reached[r].processed
                   => LET t == tasks[r][i] IN
                      /\ saves[r][t.url].html = <<<<t.html, None>>>>
                      /\ t.html = "<html>"
                      /\ Len(saves[r][t.url].md) = 1
                      /\ saves[r][t.url].md[1][1] = Markdown
                      /\ saves[r][t.url].md[1][2] =
                             [title |-> Title, depth |-> t.depth,
                              crawled_at |-> Now]
        /\ (Returned(r) /\ startResult[r] = "true" /\ AllSucceeded(r))
               => SaveCount(r, env.urls) = 2 * result[r].processed

\* a run in which every pipeline succeeded has returned after processing
\* pages of two depths
C15_Witness ==
    \E r \in Runs :
        /\ Returned(r) /\ startResult[r] = "true" /\ AllSucceeded(r)
        /\ result[r].processed >= 2
        /\ \E u \in env.urls :
               /\ Len(saves[r][u].md) = 1
               /\ saves[r][u].md[1][2].depth = 1

\* C16: the value run_scraping returns always carries a duration field that
\* is not negative. The claim names the normal path and the start-failure
\* path; this is its normal path, a run whose session started.
C16_DurationReturned ==
    \A r \in Runs :
        (Returned(r) /\ startResult[r] = "true")
            => /\ "duration" \in DOMAIN result[r]
               /\ result[r].duration >= 0

\* the URLs run r has dequeued into a batch
Dequeued(r) == {d[1] : d \in drainedIn[r]}

\* C17: visited_urls changes only when a batch is drained from the frontier:
\* no pipeline step changes it, it only grows, and it is at all times the
\* set of the URLs dequeued into a batch so far.
C17_VisitedAtDrain ==
    [][\A r \in Runs :
           /\ visited_urls[r] \subseteq visited_urls'[r]
           /\ visited_urls'[r] # visited_urls[r]
                  => /\ batchNo'[r] = batchNo[r] + 1
                     /\ pc[r] \in {"start_session", "gather"}
                     /\ \A i \in DOMAIN tasks[r] : tasks[r][i].at = "done"
           /\ visited_urls'[r] = {d[1] : d \in drainedIn'[r]}]_vars

\* after the second drain a discovered URL waits in the frontier and is not
\* in visited_urls
C17_Witness ==
    \E r \in Runs :
        /\ batchNo[r] >= 2
        /\ Cardinality(visited_urls[r]) >= 2
        /\ visited_urls[r] = Dequeued(r)
        /\ \E j \in DOMAIN to_visit[r] :
               to_visit[r][j].url \notin visited_urls[r]

\* C18: the crawl is breadth-first: the depths of the entries dequeued into
\* batches never decrease, whatever MAX_CONCURRENT_REQUESTS is and in
\* whatever order the pipelines of a batch complete.
C18_BreadthFirst ==
    \A r \in Runs :
        \A j, k \in DOMAIN drainedDepths[r] :
            j < k => drainedDepths[r][j] <= drainedDepths[r][k]

\* the URLs waiting in the frontier of run r
Waiting(r) == {to_visit[r][j].url : j \in DOMAIN to_visit[r]}

\* C19: no update of the shared state is lost, however the pipelines of a
\* batch interleave at their awaits: processed and failed are the numbers of
\* pipelines that reached the increment, errors has one entry for each
\* exception caught, every URL a pipeline appended to the frontier is in the
\* frontier until a drain takes it out, and the returned stats are these
\* final values.
C19_NoLostUpdates ==
    \A r \in Runs :
        /\ stats[r].processed = Cardinality(reached[r].processed)
        /\ stats[r].failed = Cardinality(reached[r].failed)
        /\ Len(stats[r].errors) = Cardinality(reached[r].caught)
        /\ \A d \in discovered[r] :
               d[1] \in Waiting(r) \/ d[1] \in visited_urls[r]
        /\ (Returned(r) /\ startResult[r] = "true") => result[r] = stats[r]

\* two pipelines of one batch have both counted their page, one of them has
\* appended to the frontier while the other is still awaiting extract_links
C19_Witness ==
    \E r \in Runs : \E i, j \in DOMAIN tasks[r] :
        /\ i # j
        /\ tasks[r][i].batch = tasks[r][j].batch
        /\ tasks[r][i].at = "done"
        /\ tasks[r][j].at = "extract_links"
        /\ {Pipeline(r, i), Pipeline(r, j)} \subseteq reached[r].processed
        /\ stats[r].processed >= 3
        /\ \E d \in discovered[r] :
               d[2] = tasks[r][i].batch /\ d[1] \in Waiting(r)

\* a step of run r: its position or one of its pipelines moves
StepOf(r) == pc'[r] # pc[r] \/ tasks'[r] # tasks[r]

\* C20: the frontier, visited_urls and stats belong to one call of
\* run_scraping: a step of one run leaves those of the other run as they
\* are, whether the runs follow each other or overlap; a run that started
\* dequeues its seed in its first batch even when the other run has visited
\* it, and the stats it returns count its own pipelines only.
C20_RunIsolation ==
    [][\A r \in Runs :
           /\ \A q \in Runs \ {r} :
                  StepOf(q) => /\ stats'[r] = stats[r]
                               /\ visited_urls'[r] = visited_urls[r]
                               /\ to_visit'[r] = to_visit[r]
           /\ startResult'[r] = "true"
                  => /\ <<start_url'[r], 1>> \in drainedIn'[r]
                     /\ visited_urls'[r] = {d[1] : d \in drainedIn'[r]}
           /\ (pc'[r] = "returned" /\ startResult'[r] = "true")
                  => /\ result'[r].processed
                            = Cardinality(reached'[r].processed)
                     /\ result'[r].failed = Cardinality(reached'[r].failed)
                     /\ result'[r].processed + result'[r].failed
                            <= Cardinality(visited_urls'[r])]_vars

\* both runs have returned and each has processed two pages, among them
\* the same linked page
C20_Witness ==
    /\ \A r \in Runs :
           /\ Returned(r)
           /\ startResult[r] = "true"
           /\ result[r].processed = 2
    /\ \E u \in env.urls \ {DefaultTarget} :
           \A r \in Runs : Len(saves[r][u].md) = 1

\* ---- app/infra/api/v1/endpoints.py -----------------------------------------

\* the values uuid.uuid4() can give
UUIDs == {"id-1", "id-2"}

\* req_info.client.host
Client == "testclient"

\* the detail of the HTTPException of line 115
NotFound(id) == "Task with ID " \o id \o " not found"

\* the task store with the entry e under key id
WithEntry(store, id, e) ==
    [k \in DOMAIN store \cup {id} |-> IF k = id THEN e ELSE store[k]]

\* no job has been triggered and no request answered
NoJobs ==
    [on |-> TRUE,
     tasks_store |-> <<>>,
     job |-> [r \in Runs |-> None],
     http |-> [request |-> <<None, None>>, code |-> 0, body |-> None]]

\* the API in front of one interactor: jobs for the default target or a given
\* URL on the smaller site, crawled to depth 1 at most; every port call can
\* fail
InitApi ==
    /\ settings \in {c \in Configurations : c.MAX_CRAWL_DEPTH <= 1}
    /\ env = [runs |-> {1}, requests |-> {DefaultTarget, "https://s.io/a"},
              urls |-> SmallSite,
              site |-> [u \in SmallSite |-> AnyLinks(SmallSite)],
              raising |-> PortOps,
              cleaned |-> {Content}]
    /\ Start
    /\ api = NoJobs
    /\ disk = Idle /\ page = Idle /\ text = Idle /\ browser = Idle

\* POST /trigger (lines 68-102): the entry is stored and the wrapper handed
\* to BackgroundTasks, which starts it after the response; run r is the call
\* of run_scraping it will make
Trigger(id, url, r) ==
    /\ api.on
    /\ id \notin DOMAIN api.tasks_store
    /\ url \in env.requests
    /\ r \in env.runs
    /\ api.job[r] = None
    /\ api' = [api EXCEPT
                  !.tasks_store = WithEntry(@, id,
                      [task_id |-> id, status |-> "queued",
                       created_at |-> Now, url |-> url,
                       triggered_by |-> Client]),
                  !.job[r] = id,
                  !.http = [request |-> <<"POST", id>>, code |-> 201,
                            body |-> [task_id |-> id, status |-> "queued",
                                      estimated_time |-> None]]]
    /\ UNCHANGED <<crawl, disk, page, text, browser>>

\* a store that answers a lookup of an unknown id with a new entry, as a
\* defaultdict would
GetStatus_Creates(id) ==
    /\ api.on
    /\ LET store == IF id \in DOMAIN api.tasks_store
                    THEN api.tasks_store
                    ELSE WithEntry(api.tasks_store, id,
                                   [task_id |-> id, status |-> "unknown"])
       IN  api' = [api EXCEPT !.tasks_store = store,
                              !.http = [request |-> <<"GET", id>>,
                                        code |-> 200, body |-> store[id]]]
    /\ UNCHANGED <<crawl, disk, page, text, browser>>

\* GET /status/{task_id} (lines 108-115)
GetStatus(id) ==
    /\ api.on
    /\ api' = [api EXCEPT !.http =
                  IF id \in DOMAIN api.tasks_store
                  THEN [request |-> <<"GET", id>>, code |-> 200,
                        body |-> api.tasks_store[id]]
                  ELSE [request |-> <<"GET", id>>, code |-> 404,
                        body |-> [detail |-> NotFound(id)]]]
    /\ UNCHANGED <<crawl, disk, page, text, browser>>

NextApi ==
    \/ Next
    \/ \E id \in UUIDs, url \in URLs, r \in Runs : Trigger(id, url, r)
    \/ \E id \in UUIDs : GetStatus(id)

SpecApi == InitApi /\ [][NextApi]_vars

\* the task store entry of the job that run r executes
Entry(r) == api.tasks_store[api.job[r]]

C22_TaskLookup ==
    [][api.on =>
        /\ \A id \in DOMAIN api.tasks_store : id \in DOMAIN api'.tasks_store
        /\ \A id \in DOMAIN api'.tasks_store \ DOMAIN api.tasks_store :
               /\ api'.tasks_store[id].status = "queued"
               /\ api'.http.request = <<"POST", id>>
               /\ api'.http.body.task_id = id
               /\ \A r \in Runs : api'.job[r] = id
                      => pc[r] = "idle" /\ pc'[r] = "idle"
        /\ (api'.http # api.http /\ api'.http.request[1] = "GET")
               => LET id == api'.http.request[2]
                  IN  /\ api'.tasks_store = api.tasks_store
                      /\ IF id \in DOMAIN api.tasks_store
                         THEN /\ api'.http.code = 200
                              /\ api'.http.body = api.tasks_store[id]
                         ELSE /\ api'.http.code = 404
                              /\ api'.http.body = [detail |-> NotFound(id)]
      ]_vars

\* a lookup of an id that was never issued has been answered with 404 while
\* the entry of an issued job is in the store
C22_Witness ==
    /\ api.on
    /\ api.http.request[1] = "GET"
    /\ api.http.code = 404
    /\ api.http.request[2] \notin DOMAIN api.tasks_store
    /\ \E id \in DOMAIN api.tasks_store :
           api.tasks_store[id].status = "completed"

\* ------------------------------------------------------------------------
\* FileSystemStorageService (src/app/core/storage/service.py)

\* most characters of a content, and most save calls on one disk
MaxContent == 1
MaxSaves == 2

\* no run_scraping call is made: the services are used on their own
NoRuns ==
    /\ settings = [MAX_CONCURRENT_REQUESTS |-> 1, MAX_CRAWL_DEPTH |-> 0,
                   TARGET_URL |-> DefaultTarget]
    /\ env = [runs |-> {}, requests |-> {}, urls |-> {}, site |-> <<>>,
              raising |-> {},
              cleaned |-> {Content}]
    /\ Start
    /\ api = Idle

\* config.py:25-26 and service.py:60, relative to BASE_DIR
HTML_STORAGE_PATH == "storage/html"
MARKDOWN_STORAGE_PATH == "storage/markdown"
MiscPath == "storage/misc"

\* the URLs stored, and hashlib.md5(url.encode("utf-8")).hexdigest() of each
StoredURLs == {"https://s.io/", "https://s.io/a"}
generate_filename(url) ==
    IF url = "https://s.io/" THEN "22082036d6de8286a655bf8b040db3d2"
    ELSE "57682c84d8afe5d249db5565956025fa"

\* the extensions passed, and str.lower() on them
Extensions == {"html", "md", "MD", "txt", "json"}
Lower(extension) == IF extension = "MD" THEN "md" ELSE extension

\* contents are strings, given character by character
Chars == {"a", "\n", "\r"}
Contents == UNION {[1..n -> Chars] : n \in 0..MaxContent}

\* a dict is the sequence of its items in insertion order; the metadata
\* argument is absent (None), an empty dict or a dict with a title
Dicts == {<<>>, << <<"title", "T">> >>}
MetadataArgs == {[none |-> TRUE, dict |-> <<>>]}
                    \cup {[none |-> FALSE, dict |-> d] : d \in Dicts}

\* Python's truth value of the metadata argument (service.py:70): None and
\* the empty dict are false
Truthy(metadata) == ~metadata.none /\ Len(metadata.dict) > 0

\* d[key] = value on a dict
SetItem(d, key, value) ==
    IF \E i \in DOMAIN d : d[i][1] = key
    THEN [i \in DOMAIN d |-> IF d[i][1] = key THEN <<key, value>> ELSE d[i]]
    ELSE Append(d, <<key, value>>)

\* json.dumps(d, indent=2, ensure_ascii=False) of a dict of strings, one
\* piece of text per line
Dumps(d) ==
    <<"{">>
        \o [i \in DOMAIN d |->
               "  \"" \o d[i][1] \o "\": \"" \o d[i][2] \o "\""
                   \o (IF i < Len(d) THEN "," ELSE "")]
        \o <<"}">>

\* the value a call returns: None, or a string
Absent == [none |-> TRUE, value |-> <<>>]
Some(s) == [none |-> FALSE, value |-> s]

\* reading in text mode with the default newline=None (service.py:102-103):
\* "\r\n" and "\r" come back as "\n"
RECURSIVE Translate(_)
Translate(s) ==
    IF s = <<>> THEN <<>>
    ELSE IF Len(s) >= 2 /\ s[1] = "\r" /\ s[2] = "\n"
         THEN <<"\n">> \o Translate(SubSeq(s, 3, Len(s)))
    ELSE IF s[1] = "\r" THEN <<"\n">> \o Translate(Tail(s))
    ELSE <<s[1]>> \o Translate(Tail(s))

\* the directory save writes an extension to (service.py:55-61) and the one
\* get reads it from (service.py:92-95)
SaveBasePath(extension) ==
    IF Lower(extension) \in {"html", "htm"} THEN HTML_STORAGE_PATH
    ELSE IF Lower(extension) \in {"markdown", "md"} THEN MARKDOWN_STORAGE_PATH
    ELSE MiscPath
GetBasePath(extension) ==
    IF Lower(extension) \in {"html", "htm"} THEN HTML_STORAGE_PATH
    ELSE MARKDOWN_STORAGE_PATH

\* base_path / f"{filename}.{extension}"
FilePath(base_path, filename, extension) ==
    base_path \o "/" \o filename \o "." \o extension

\* the files on disk after open(path, mode="w") and write(s): the file is
\* created or truncated ("\n" is written as it is on the platform modelled)
Written(files, path, s) == WithEntry(files, path, s)

\* the paths save writes for a url and an extension (service.py:64-65, 71)
ArtifactPath(url, extension) ==
    FilePath(SaveBasePath(extension), generate_filename(url), extension)
MetadataPath(url, extension) ==
    FilePath(SaveBasePath(extension), generate_filename(url), "json")

\* an empty storage directory tree; `saved` remembers the content of the
\* last save of every (url, extension), `where` every location save has
\* returned for it
EmptyDisk ==
    [on |-> TRUE, files |-> <<>>, saved |-> <<>>, where |-> <<>>,
     count |-> 0,
     last |-> [op |-> "none", url |-> None, extension |-> None,
               content |-> <<>>, metadata |-> [none |-> TRUE, dict |-> <<>>],
               result |-> Absent]]

InitStorage ==
    /\ NoRuns
    /\ disk = EmptyDisk
    /\ page = Idle /\ text = Idle /\ browser = Idle

\* save (service.py:43-79) on a disk that takes every write
Save(url, content, extension, metadata) ==
    /\ disk.on
    /\ disk.count < MaxSaves
    /\ LET file_path == ArtifactPath(url, extension)
           metadata_path == MetadataPath(url, extension)
           artifact == Written(disk.files, file_path, content)
           files == IF Truthy(metadata)
                    THEN Written(artifact, metadata_path,
                                 Dumps(SetItem(metadata.dict,
                                               "source_url", url)))
                    ELSE artifact
       IN  disk' = [disk EXCEPT
                      !.files = files,
                      !.saved = WithEntry(@, <<url, extension>>, content),
                      !.where = WithEntry(@, <<url, extension>>,
                                          Get(@, <<url, extension>>, {})
                                              \cup {file_path}),
                      !.count = @ + 1,
                      !.last = [op |-> "save", url |-> url,
                                extension |-> extension,
                                content |-> content, metadata |-> metadata,
                                result |-> Some(<<file_path>>)]]
    /\ UNCHANGED <<crawl, api, page, text, browser>>

\* get (service.py:81-106)
StorageGet(url, extension) ==
    /\ disk.on
    /\ LET filename == generate_filename(url)
           base_path == GetBasePath(extension)
           file_path == FilePath(base_path, filename, extension)
       IN  disk' = [disk EXCEPT
                      !.last = [op |-> "get", url |-> url,
                                extension |-> extension,
                                content |-> <<>>,
                                metadata |-> [none |-> TRUE, dict |-> <<>>],
                                result |->
                                    IF file_path \in DOMAIN disk.files
                                    THEN Some(Translate(disk.files[file_path]))
                                    ELSE Absent]]
    /\ UNCHANGED <<crawl, api, page, text, browser>>

NextStorage ==
    \/ \E url \in StoredURLs, content \in Contents, extension \in Extensions,
          metadata \in MetadataArgs : Save(url, content, extension, metadata)
    \/ \E url \in StoredURLs, extension \in Extensions :
           StorageGet(url, extension)

SpecStorage == InitStorage /\ [][NextStorage]_vars

\* C23: a get(url, kind) returns exactly the content of the last
\* save(url, content, kind), whatever the kind, and None when no save for that
\* url and kind has happened.
C23_RoundTrip ==
    (disk.on /\ disk.last.op = "get")
        => LET key == <<disk.last.url, disk.last.extension>>
           IN  disk.last.result = IF key \in DOMAIN disk.saved
                                  THEN Some(disk.saved[key])
                                  ELSE Absent

\* C24: any two saves of one url and kind return the same location, whatever
\* their content and metadata, and after every save the location of a url and
\* kind holds exactly the content of the last save of that url and kind.
C24_Location ==
    disk.on
        => \A key \in DOMAIN disk.saved :
               /\ Cardinality(disk.where[key]) = 1
               /\ \A location \in disk.where[key] :
                      /\ location \in DOMAIN disk.files
                      /\ disk.files[location] = disk.saved[key]

\* C25: a save with a metadata mapping, the empty one included, leaves a
\* sidecar under the same stem with every supplied field and source_url = url;
\* a save without metadata leaves every sidecar as it was.
C25_Sidecar ==
    [][(disk.on /\ disk'.count = disk.count + 1)
        => LET call == disk'.last
               sidecar == MetadataPath(call.url, call.extension)
           IN  IF call.metadata.none
               THEN \A url \in StoredURLs, extension \in Extensions :
                        LET path == MetadataPath(url, extension)
                        IN  /\ path \in DOMAIN disk'.files
                                <=> path \in DOMAIN disk.files
                            /\ path \in DOMAIN disk.files
                                => disk'.files[path] = disk.files[path]
               ELSE /\ sidecar \in DOMAIN disk'.files
                    /\ \E d \in {SetItem(call.metadata.dict,
                                         "source_url", call.url)} :
                           /\ disk'.files[sidecar] = Dumps(d)
                           /\ \A i \in DOMAIN call.metadata.dict :
                                  \E j \in DOMAIN d :
                                      d[j] = call.metadata.dict[i]
                           /\ \E j \in DOMAIN d :
                                  d[j] = <<"source_url", call.url>>
      ]_vars

\* ------------------------------------------------------------------------
\* WebsiteParserService.extract_links (src/app/core/parser/service.py)

\* most anchors of a page
MaxAnchors == 2

\* a URL or href is its text cut at the characters ":", "/" and "#": a
\* sequence of these three and of the pieces between them
Delimiters == {":", "/", "#"}

\* the pages the crawl starts from: https://s.io/ and https://s.io/a/
Seeds ==
    {<<"https", ":", "/", "/", "s.io", "/">>,
     <<"https", ":", "/", "/", "s.io", "/", "a", "/">>}

\* the href values of the anchors: "", #f, b, /a, /a/, /a//, //t.io/a,
\* https://s.io/a/#f, https://t.io/a/, http://s.io/a, ftp://s.io/a and
\* mailto:x
Hrefs ==
    {<<>>,
     <<"#", "f">>,
     <<"b">>,
     <<"/", "a">>,
     <<"/", "a", "/">>,
     <<"/", "a", "/", "/">>,
     <<"/", "/", "t.io", "/", "a">>,
     <<"https", ":", "/", "/", "s.io", "/", "a", "/", "#", "f">>,
     <<"https", ":", "/", "/", "t.io", "/", "a", "/">>,
     <<"http", ":", "/", "/", "s.io", "/", "a">>,
     <<"ftp", ":", "/", "/", "s.io", "/", "a">>,
     <<"mailto", ":", "x">>}

\* s.find(t) + 1: where t first occurs in s, 0 when it does not
First(s, t) ==
    IF \E i \in DOMAIN s : s[i] = t
    THEN CHOOSE i \in DOMAIN s : s[i] = t /\ \A j \in 1..(i - 1) : s[j] # t
    ELSE 0

\* s.split(t)[0], and what follows the first t
Before(s, t) == IF First(s, t) = 0 THEN s ELSE SubSeq(s, 1, First(s, t) - 1)
After(s, t) ==
    IF First(s, t) = 0 THEN <<>> ELSE SubSeq(s, First(s, t) + 1, Len(s))

\* s.rstrip("/")
RECURSIVE RStrip(_)
RStrip(s) ==
    IF s # <<>> /\ s[Len(s)] = "/" THEN RStrip(SubSeq(s, 1, Len(s) - 1))
    ELSE s

\* urllib.parse.urlparse(url, scheme): scheme, netloc, path and fragment
urlparse(url, default) ==
    LET explicit == Len(url) >= 2 /\ url[2] = ":" /\ url[1] \notin Delimiters
        rest == IF explicit THEN SubSeq(url, 3, Len(url)) ELSE url
        located == Len(rest) >= 2 /\ rest[1] = "/" /\ rest[2] = "/"
        authority == IF located
                     THEN Before(Before(SubSeq(rest, 3, Len(rest)), "/"), "#")
                     ELSE <<>>
        tail == IF located
                THEN SubSeq(rest, 3 + Len(authority), Len(rest))
                ELSE rest
    IN  [scheme |-> IF explicit THEN url[1] ELSE default,
         netloc |-> authority,
         path |-> Before(tail, "#"),
         fragment |-> After(tail, "#")]

\* urllib.parse.urlunparse
urlunparse(parts) ==
    (IF parts.scheme # "" THEN <<parts.scheme, ":">> ELSE <<>>)
        \o (IF parts.netloc # <<>>
            THEN <<"/", "/">> \o parts.netloc
                     \o (IF parts.path # <<>> /\ parts.path[1] # "/"
                         THEN <<"/">> ELSE <<>>)
            ELSE <<>>)
        \o parts.path
        \o (IF parts.fragment # <<>> THEN <<"#">> \o parts.fragment
            ELSE <<>>)

\* the schemes urllib resolves relative references for
uses_relative == {"", "http", "https", "ftp"}

\* bpath without its last segment: what a relative path is merged with
Directory(bpath) ==
    IF \E i \in DOMAIN bpath : bpath[i] = "/"
    THEN SubSeq(bpath, 1,
                CHOOSE i \in DOMAIN bpath :
                    bpath[i] = "/" /\ \A j \in (i + 1)..Len(bpath) :
                                          bpath[j] # "/")
    ELSE <<>>

\* urllib.parse.urljoin(base, url) for references without "." and ".."
\* segments, without query, and without empty segments inside a relative path
urljoin(base, url) ==
    LET b == urlparse(base, "")
        u == urlparse(url, b.scheme)
    IN  IF base = <<>> THEN url
        ELSE IF url = <<>> THEN base
        ELSE IF u.scheme # b.scheme \/ u.scheme \notin uses_relative THEN url
        ELSE IF u.netloc # <<>> THEN urlunparse(u)
        ELSE IF u.path = <<>>
             THEN urlunparse([u EXCEPT !.netloc = b.netloc,
                                       !.path = b.path])
        ELSE IF u.path[1] = "/"
             THEN urlunparse([u EXCEPT !.netloc = b.netloc])
        ELSE urlunparse([u EXCEPT !.netloc = b.netloc,
                                  !.path = Directory(b.path) \o u.path])

\* line 157 with the host left out of the test
Valid_AnyHost(parsed, base_domain) == parsed.scheme \in {"http", "https"}

\* line 157: the test a resolved link has to pass
Valid(parsed, base_domain) ==
    parsed.netloc = base_domain /\ parsed.scheme \in {"http", "https"}

\* lines 151-158: what one anchor adds to valid_links
Link(href, current_url, base_domain) ==
    LET full_url == urljoin(current_url, href)
        parsed == urlparse(full_url, "")
        stripped == RStrip(Before(full_url, "#"))
    IN  IF Valid(parsed, base_domain) THEN <<stripped>> ELSE <<>>

\* no page has been handed to extract_links; `html` is the document as the
\* list of the href values soup.find_all("a", href=True) has given so far
NoPages ==
    [on |-> TRUE, seed |-> <<>>, pc |-> "idle", html |-> <<>>,
     current_url |-> <<>>, base_domain |-> <<>>, links |-> <<>>]

InitLinks ==
    /\ NoRuns
    /\ disk = Idle
    /\ page \in {[NoPages EXCEPT !.seed = s] : s \in Seeds}
    /\ text = Idle /\ browser = Idle

\* the pipeline calls extract_links (interactor.py:52, 136) for the seed or
\* for a URL that the call before returned and the pipeline appended to
\* to_visit (interactor.py:140-142)
ExtractLinks(current_url) ==
    /\ page.on
    /\ page.pc = "idle"
    /\ current_url \in {page.seed} \cup {page.links[i] : i \in DOMAIN page.links}
    /\ page' = [page EXCEPT
                   !.pc = "anchors",
                   !.html = <<>>,
                   !.current_url = current_url,
                   !.base_domain = urlparse(page.seed, "").netloc,
                   !.links = <<>>]
    /\ UNCHANGED <<crawl, api, disk, text, browser>>

\* one turn of the loop of lines 150-158, for the next anchor of the page
Anchor(href) ==
    /\ page.on
    /\ page.pc = "anchors"
    /\ Len(page.html) < MaxAnchors
    /\ page' = [page EXCEPT
                   !.html = Append(@, href),
                   !.links = @ \o Link(href, page.current_url,
                                       page.base_domain)]
    /\ UNCHANGED <<crawl, api, disk, text, browser>>

\* the page has no more anchors: return valid_links (line 161)
ReturnLinks ==
    /\ page.on
    /\ page.pc = "anchors"
    /\ page' = [page EXCEPT !.pc = "idle"]
    /\ UNCHANGED <<crawl, api, disk, text, browser>>

NextLinks ==
    \/ \E current_url \in Seeds \cup {page.links[i] : i \in DOMAIN page.links} :
           ExtractLinks(current_url)
    \/ \E href \in Hrefs : Anchor(href)
    \/ ReturnLinks

SpecLinks == InitLinks /\ [][NextLinks]_vars

\* C26: every URL extract_links returns has the netloc given as base_domain
\* and the scheme http or https, and so every URL the crawl takes into its
\* frontier, and every page it hands to extract_links, has the netloc of the
\* seed.
C26_DomainContainment ==
    (page.on /\ page.current_url # <<>>)
        => /\ \A i \in DOMAIN page.links :
                  /\ urlparse(page.links[i], "").netloc = page.base_domain
                  /\ urlparse(page.links[i], "").scheme \in {"http", "https"}
                  /\ urlparse(page.links[i], "").netloc
                         = urlparse(page.seed, "").netloc
           /\ urlparse(page.current_url, "").netloc
                  = urlparse(page.seed, "").netloc

\* a page that is not the seed, with an anchor to another host and an anchor
\* to the seed's host, has been parsed and its links returned
C26_Witness ==
    /\ page.on
    /\ page.pc = "idle"
    /\ page.current_url \notin {<<>>, page.seed}
    /\ \E i \in DOMAIN page.html :
           urlparse(urljoin(page.current_url, page.html[i]), "").netloc
               = <<"t.io">>
    /\ page.links # <<>>

\* C27: no URL occurs twice in the list extract_links returns.
C27_Deduplicated ==
    page.on
        => \A i, j \in DOMAIN page.links :
               page.links[i] = page.links[j] => i = j

\* url without one trailing "/", when it has one
StripOne(url) ==
    IF url # <<>> /\ url[Len(url)] = "/" THEN SubSeq(url, 1, Len(url) - 1)
    ELSE url

\* the hrefs of a document whose resolved URL passes the test of line 157
Retained(html, current_url, base_domain) ==
    SelectSeq(html,
              LAMBDA href : Valid(urlparse(urljoin(current_url, href), ""),
                                  base_domain))

\* C28: every link returned is the href resolved against current_url, without
\* its fragment and without one trailing slash (one, not all of them), and
\* normalising a returned link again gives the same link.
C28_Normalised ==
    page.on
        => LET hrefs == Retained(page.html, page.current_url,
                                 page.base_domain)
           IN  /\ Len(page.links) = Len(hrefs)
               /\ \A i \in DOMAIN page.links :
                      /\ page.links[i]
                             = StripOne(Before(urljoin(page.current_url,
                                                       hrefs[i]), "#"))
                      /\ RStrip(Before(urljoin(page.current_url,
                                               page.links[i]), "#"))
                             = page.links[i]

\* ------------------------------------------------------------------------
\* WebsiteParserService.clean (src/app/core/parser/service.py)

\* most nodes of a document
MaxNodes == 3

NOISE_TAGS ==
    <<"script", "style", "iframe", "noscript", "meta", "link", "svg", "form",
      "input", "button">>
BOILERPLATE_TAGS == <<"header", "footer", "nav", "aside">>
allowed_attrs == {"src", "href", "alt", "title"}

\* the tags and attribute names of the documents; a piece of text is a node
\* with the tag "#text", and html.parser gives no children to <input>
Tags == {"main", "script", "header", "input"}
VoidTags == {"input"}
AttrSets == {{}, {"href", "class"}}
Nodes ==
    [tag : Tags, parent : 0..(MaxNodes - 1), attrs : AttrSets, string : {""}]
        \cup [tag : {"#text"}, parent : 0..(MaxNodes - 1), attrs : {{}},
              string : {"Main Title"}]

\* BeautifulSoup(raw_html, "html.parser") for every document of up to n
\* nodes: the nodes in document order, each with the index of its parent (0
\* for the soup itself), which is an element that can have children
RECURSIVE TreesOf(_)
TreesOf(n) ==
    IF n = 0 THEN {<<>>}
    ELSE LET smaller == TreesOf(n - 1)
         IN  smaller
                 \cup {Append(t, x) :
                          <<t, x>> \in
                              {tx \in {s \in smaller : Len(s) = n - 1} \X Nodes :
                                  /\ tx[2].parent < n
                                  /\ tx[2].parent # 0
                                         => tx[1][tx[2].parent].tag
                                                \notin VoidTags \cup {"#text"}}}
Trees == TreesOf(MaxNodes)

\* node i, or one of its ancestors, is node k
RECURSIVE Under(_, _, _)
Under(nodes, i, k) ==
    IF i = 0 THEN FALSE
    ELSE IF i = k THEN TRUE
    ELSE Under(nodes, nodes[i].parent, k)

\* a search that looks at the children of the soup only
find_all_TopLevel(soup, tag_name) ==
    {i \in soup.alive :
        soup.nodes[i].tag = tag_name /\ soup.nodes[i].parent = 0}

\* soup.find_all(tag_name): the elements of that name still in the tree
find_all(soup, tag_name) ==
    {i \in soup.alive : soup.nodes[i].tag = tag_name}

\* tag.decompose() for every tag found: they leave the tree with everything
\* under them
Decompose(soup, found) ==
    [soup EXCEPT !.alive = {i \in @ : \A k \in found : ~Under(soup.nodes, i, k)}]

\* the two loops of lines 105-111 over a list of tag names
RECURSIVE Remove(_, _)
Remove(soup, tag_names) ==
    IF tag_names = <<>> THEN soup
    ELSE Remove(Decompose(soup, find_all(soup, Head(tag_names))),
                Tail(tag_names))

\* lines 113-118: every remaining tag keeps its allowed attributes
Strip(soup) ==
    [soup EXCEPT !.nodes =
        [i \in DOMAIN @ |->
            IF i \in soup.alive /\ @[i].tag # "#text"
            THEN [@[i] EXCEPT !.attrs = @ \cap allowed_attrs]
            ELSE @[i]]]

\* clean (lines 82-128) on the parsed content: the soup that is written out
\* as cleaned_content
clean(nodes) ==
    IF nodes = <<>> THEN [nodes |-> <<>>, alive |-> {}]
    ELSE Strip(Remove(Remove([nodes |-> nodes, alive |-> DOMAIN nodes],
                             NOISE_TAGS),
                      BOILERPLATE_TAGS))

InitClean ==
    /\ NoRuns
    /\ disk = Idle
    /\ page \in {[on |-> TRUE, nodes |-> t, done |-> FALSE,
                  cleaned |-> [nodes |-> <<>>, alive |-> {}]] : t \in Trees}
    /\ text = Idle /\ browser = Idle

Clean ==
    /\ page.on
    /\ ~page.done
    /\ page' = [page EXCEPT !.done = TRUE, !.cleaned = clean(page.nodes)]
    /\ UNCHANGED <<crawl, api, disk, text, browser>>

NextClean == Clean

SpecClean == InitClean /\ [][NextClean]_vars

\* the tags clean removes
Removed ==
    {NOISE_TAGS[i] : i \in DOMAIN NOISE_TAGS}
        \cup {BOILERPLATE_TAGS[i] : i \in DOMAIN BOILERPLATE_TAGS}

\* node i of the document is not a removed element and is under none
Clear(i) ==
    \A k \in DOMAIN page.nodes :
        Under(page.nodes, i, k) => page.nodes[k].tag \notin Removed

\* C29: the cleaned output has no element of a noise or boilerplate tag at any
\* depth and nothing that was under one; every node under no such element is
\* still there, text with its string; and every element left has exactly its
\* attributes among src, href, alt and title.
C29_Cleaned ==
    (page.on /\ page.done)
        => /\ DOMAIN page.cleaned.nodes = DOMAIN page.nodes
           /\ \A i \in DOMAIN page.nodes :
                  /\ i \in page.cleaned.alive <=> Clear(i)
                  /\ i \in page.cleaned.alive
                         => /\ page.cleaned.nodes[i].tag = page.nodes[i].tag
                            /\ page.cleaned.nodes[i].parent
                                   = page.nodes[i].parent
                            /\ page.cleaned.nodes[i].string
                                   = page.nodes[i].string
                            /\ page.cleaned.nodes[i].attrs
                                   = page.nodes[i].attrs \cap allowed_attrs

\* a document with text in <main>, and a <script> inside an element with a
\* class attribute, has been cleaned
C29_Witness ==
    /\ page.on /\ page.done
    /\ \E i, k \in DOMAIN page.nodes :
           /\ page.nodes[i].tag = "#text" /\ page.nodes[i].parent # 0
           /\ page.nodes[page.nodes[i].parent].tag = "main"
           /\ "class" \in page.nodes[page.nodes[i].parent].attrs
           /\ page.nodes[k].tag = "script" /\ page.nodes[k].parent # 0
           /\ i \in page.cleaned.alive
           /\ k \notin page.cleaned.alive

\* ------------------------------------------------------------------------
\* MarkDownConverterService (src/app/core/converter/service.py)

\* most characters of the text markdownify returns
MaxText == 6

\* the characters of a text: a letter, a newline and two more of the
\* characters str.strip() removes
Letters == {"a", "\n", " "}
Whitespace == {" ", "\n", "\t", "\r"}
Texts == UNION {[1..n -> Letters] : n \in 0..MaxText}

\* the contents handed to convert: the empty string and a piece of HTML
Cleaned == {<<>>, <<"<p>", "a", "</p>">>}

\* how many times t stands at the head of s
RECURSIVE Run(_, _)
Run(s, t) == IF s # <<>> /\ Head(s) = t THEN 1 + Run(Tail(s), t) ELSE 0

\* text.replace("\n\n\n", "\n\n"): every three newlines become two
RECURSIVE sub_Triples(_)
sub_Triples(s) ==
    IF s = <<>> THEN <<>>
    ELSE IF Run(s, "\n") >= 3
         THEN <<"\n", "\n">> \o sub_Triples(SubSeq(s, 4, Len(s)))
    ELSE <<Head(s)>> \o sub_Triples(Tail(s))

\* re.sub(r'\n{3,}', '\n\n', text): the pattern takes a whole run of three or
\* more newlines
RECURSIVE sub(_)
sub(s) ==
    IF s = <<>> THEN <<>>
    ELSE IF Run(s, "\n") >= 3
         THEN <<"\n", "\n">> \o sub(SubSeq(s, Run(s, "\n") + 1, Len(s)))
    ELSE <<Head(s)>> \o sub(Tail(s))

\* text.strip()
RECURSIVE strip(_)
strip(s) ==
    IF s = <<>> THEN <<>>
    ELSE IF s[1] \in Whitespace THEN strip(Tail(s))
    ELSE IF s[Len(s)] \in Whitespace THEN strip(SubSeq(s, 1, Len(s) - 1))
    ELSE s

\* _clean_whitespace (lines 56-58)
clean_whitespace(txt) == strip(sub(txt))

\* convert (lines 31-53), given what markdownify returns for the content
convert(content, markdown_text) ==
    IF content = <<>> THEN <<>> ELSE clean_whitespace(markdown_text)

InitConvert ==
    /\ NoRuns
    /\ disk = Idle /\ page = Idle /\ browser = Idle
    /\ text \in {[on |-> TRUE, content |-> c, done |-> FALSE,
                  markdown_text |-> <<>>, result |-> <<>>] : c \in Cleaned}

\* one call of convert; the library's output is any text
Convert(markdown_text) ==
    /\ text.on
    /\ ~text.done
    /\ text.content = <<>> => markdown_text = <<>>
    /\ text' = [text EXCEPT !.done = TRUE,
                            !.markdown_text = markdown_text,
                            !.result = convert(text.content, markdown_text)]
    /\ UNCHANGED <<crawl, api, disk, page, browser>>

NextConvert == \E markdown_text \in Texts : Convert(markdown_text)

SpecConvert == InitConvert /\ [][NextConvert]_vars

\* the runs of a text: each character that differs from the one before it,
\* with the number of times it is repeated
RECURSIVE Lengths(_)
Lengths(s) ==
    IF s = <<>> THEN <<>>
    ELSE <<<<Head(s), Run(s, Head(s))>>>>
             \o Lengths(SubSeq(s, Run(s, Head(s)) + 1, Len(s)))

\* C30: the output of convert has no three newlines in a row and neither
\* begins nor ends with whitespace; between its first and last visible
\* character it is the text markdownify returned, with each run of three or
\* more newlines made exactly two; and an empty input gives an empty output.
C30_Whitespace ==
    (text.on /\ text.done)
        => /\ \A i \in 1..(Len(text.result) - 2) :
                  ~(/\ text.result[i] = "\n"
                    /\ text.result[i + 1] = "\n"
                    /\ text.result[i + 2] = "\n")
           /\ text.result # <<>>
                  => /\ text.result[1] \notin Whitespace
                     /\ text.result[Len(text.result)] \notin Whitespace
           /\ text.content = <<>> => text.result = <<>>
           /\ text.content # <<>>
                  => LET before == Lengths(strip(text.markdown_text))
                         after == Lengths(text.result)
                     IN  /\ Len(after) = Len(before)
                         /\ \A i \in DOMAIN after :
                                after[i] = IF /\ before[i][1] = "\n"
                                              /\ before[i][2] >= 3
                                           THEN <<"\n", 2>>
                                           ELSE before[i]

\* a text with four newlines between two letters has been converted
C30_Witness ==
    /\ text.on /\ text.done
    /\ text.markdown_text = <<"a", "\n", "\n", "\n", "\n", "a">>
    /\ text.result = <<"a", "\n", "\n", "a">>

\* ------------------------------------------------------------------------
\* the pipeline on pages whose cleaned content may be empty

\* one call of run_scraping for the default target on the smaller site, to
\* depth 1 at most; clean returns a content or the empty string, and every
\* port call can fail
InitPages ==
    /\ settings \in {c \in Configurations : c.MAX_CRAWL_DEPTH <= 1}
    /\ env = [runs |-> {1}, requests |-> {None}, urls |-> SmallSite,
              site |-> [u \in SmallSite |-> AnyLinks(SmallSite)],
              raising |-> PortOps,
              cleaned |-> {"", Content}]
    /\ Start
    /\ api = Idle /\ disk = Idle /\ page = Idle /\ text = Idle
    /\ browser = Idle

SpecPages == InitPages /\ [][Next]_vars

\* C31: a page whose cleaned content is empty goes on like any other page:
\* convert is called with the empty string, the converted artifact is saved,
\* and when no port call of the page raises the page ends counted in
\* processed, and neither in failed nor in errors.
C31_EmptyContentProcessed ==
    \A r \in Runs : \A i \in DOMAIN tasks[r] :
        LET t == tasks[r][i] IN
        t.content = ""
            => /\ t.at \in {"convert", "save_md", "extract_links", "done"}
               /\ calls[r][t.url]["convert"] >= 1
               /\ (t.at \in {"save_md", "extract_links"}
                       \/ (t.at = "done" /\ t.e = Unset))
                      => /\ Len(saves[r][t.url]["md"]) = 1
                         /\ saves[r][t.url]["md"][1]
                                = <<Converted(""), Metadata(t)>>
                         /\ calls[r][t.url]["save_md"] = 1
               /\ (t.at = "done" /\ t.e = Unset)
                      => Pipeline(r, i) \in reached[r].processed
               /\ t.e = Unset
                      => Pipeline(r, i)
                             \notin reached[r].failed \cup reached[r].caught
               /\ (t.at \in {"extract_links", "done"} /\ t.e = Unset)
                      => /\ stats[r].processed >= 1
                         /\ stats[r].processed
                                = Cardinality(reached[r].processed)

\* a page with empty cleaned content has gone through its pipeline and is
\* counted as processed, in a run without any failed page or error
C31_Witness ==
    \E r \in Runs : \E i \in DOMAIN tasks[r] :
        /\ tasks[r][i].content = ""
        /\ tasks[r][i].at = "done"
        /\ tasks[r][i].e = Unset
        /\ Pipeline(r, i) \in reached[r].processed
        /\ stats[r].failed = 0
        /\ stats[r].errors = <<>>

\* ------------------------------------------------------------------------
\* link discovery and the frontier

\* sites of three pages on which extract_links returns one fixed list for
\* each page; the lists name visited and unvisited pages, and some name a
\* page twice
FrontierSites ==
    {[u \in SmallSite |->
         CASE u = "https://s.io/" -> {home}
           [] u = "https://s.io/a" -> {a}
           [] OTHER -> {b}] :
        home \in {<<"https://s.io/a", "https://s.io/b">>,
                  <<"https://s.io/a", "https://s.io/a">>,
                  <<"https://s.io/", "https://s.io/a">>},
        a \in {<<"https://s.io/", "https://s.io/b">>,
               <<"https://s.io/b", "https://s.io/b">>,
               <<"https://s.io/b", "https://s.io/a">>},
        b \in {<<"https://s.io/a">>, <<>>}}

\* one call of run_scraping for the default target on one of these sites;
\* fetch_page and extract_links can fail
InitFrontier ==
    /\ settings \in Configurations
    /\ \E site \in FrontierSites :
           env = [runs |-> {1}, requests |-> {None}, urls |-> SmallSite,
                  site |-> site,
                  raising |-> {"fetch_page", "extract_links"},
                  cleaned |-> {Content}]
    /\ Start
    /\ api = Idle /\ disk = Idle /\ page = Idle /\ text = Idle
    /\ browser = Idle

SpecFrontier == InitFrontier /\ [][Next]_vars

\* the entries (link, depth) for the links of a list
Entries(links, depth) ==
    [j \in DOMAIN links |-> [url |-> links[j], depth |-> depth]]

\* pipeline i of run r goes through the step from st to its end, the same
\* pipeline before and after
Steps(r, i, st) ==
    /\ i \in DOMAIN tasks[r] /\ i \in DOMAIN tasks'[r]
    /\ tasks'[r][i].batch = tasks[r][i].batch
    /\ tasks[r][i].at = st
    /\ tasks'[r][i].at = "done"

\* C32: when extract_links has returned for a page, the frontier becomes the
\* frontier before followed by (link, depth + 1) for exactly the returned
\* links that are not in visited_urls at that moment, in the order returned;
\* a pipeline step that is not this one leaves the frontier as it is.
C32_EnqueueRule ==
    [][\A r \in Runs : \A i \in DOMAIN tasks[r] :
           LET t == tasks[r][i]
               NotVisited(l) == l \notin visited_urls[r]
           IN
           /\ (Steps(r, i, "extract_links") /\ tasks'[r][i].e = Unset)
                  => /\ t.depth < MAX_CRAWL_DEPTH
                     /\ \A links \in env.site[t.url] :
                            to_visit'[r] = to_visit[r] \o
                                Entries(SelectSeq(links, NotVisited),
                                        t.depth + 1)
           /\ (/\ i \in DOMAIN tasks'[r]
               /\ tasks'[r][i].batch = t.batch
               /\ tasks'[r][i] # t
               /\ ~(Steps(r, i, "extract_links") /\ tasks'[r][i].e = Unset))
                  => to_visit'[r] = to_visit[r]]_vars

\* a pipeline has finished its discovery on a list that names a visited page
\* and a page not visited: the last entry of the frontier is the unvisited
\* link one level deeper, and the visited link was not appended by it
C32_Witness ==
    \E r \in Runs : \E i \in DOMAIN tasks[r] :
        LET t == tasks[r][i] IN
        /\ t.at = "done" /\ t.e = Unset
        /\ t.depth < MAX_CRAWL_DEPTH
        /\ Pipeline(r, i) \in reached[r].processed
        /\ calls[r][t.url]["extract_links"] = 1
        /\ \E links \in env.site[t.url] :
               /\ Len(links) = 2
               /\ links[1] \in visited_urls[r]
               /\ links[2] \notin visited_urls[r]
               /\ to_visit[r] # <<>>
               /\ to_visit[r][Len(to_visit[r])]
                      = [url |-> links[2], depth |-> t.depth + 1]
               /\ \A j \in DOMAIN to_visit[r] :
                      to_visit[r][j].url # links[1]

\* ------------------------------------------------------------------------
\* the order of the pipeline's port calls

\* the awaited port calls in the order of the code (lines 108-136)
Order == <<"fetch_page", "save_html", "parse", "clean", "convert",
           "save_md", "extract_links">>

\* the place of a port call in that order
Place(op) == CHOOSE k \in DOMAIN Order : Order[k] = op

\* the port call of pipeline t that was made last
LastCalled(r, t) ==
    LET made == {k \in DOMAIN Order : calls[r][t.url][Order[k]] > 0} IN
    IF made = {} THEN 0 ELSE CHOOSE k \in made : \A j \in made : j <= k

\* C33: the port calls for a page are made in the order fetch, save raw HTML,
\* parse, clean, convert, save converted, extract links, each at most once
\* and only after every earlier one was made; the page is counted in
\* processed exactly from the return of the second save on; and after a call
\* that raised no later call is made: the later artifacts are not saved and
\* the links are not looked for.
C33_PipelineOrder ==
    \A r \in Runs :
        /\ \A u \in env.urls :
               /\ \A op \in PortOps : calls[r][u][op] <= 1
               /\ \A k \in 1..(Len(Order) - 1) :
                      calls[r][u][Order[k + 1]] <= calls[r][u][Order[k]]
               /\ Len(saves[r][u]["html"]) = calls[r][u]["save_html"]
               /\ Len(saves[r][u]["md"]) = calls[r][u]["save_md"]
        /\ \A i \in DOMAIN tasks[r] :
               LET t == tasks[r][i]
                   c == calls[r][t.url]
               IN
               /\ t.at \in PortOps
                      => \A k \in DOMAIN Order :
                             c[Order[k]] = IF k <= Place(t.at) THEN 1 ELSE 0
               /\ Pipeline(r, i) \in reached[r].processed
                      <=> \/ t.at = "extract_links"
                          \/ /\ t.at = "done"
                             /\ c["save_md"] = 1
                             /\ t.e = Unset \/ c["extract_links"] = 1
               /\ Pipeline(r, i) \in reached[r].processed
                      => c["save_html"] = 1 /\ c["save_md"] = 1
               /\ (t.at = "done" /\ t.e # Unset)
                      => /\ LastCalled(r, t) >= 1
                         /\ \A k \in DOMAIN Order :
                                k > LastCalled(r, t) => c[Order[k]] = 0
                         /\ Place("save_md") > LastCalled(r, t)
                                => saves[r][t.url]["md"] = <<>>

\* the save of a page's raw HTML raised: the page ended with nothing parsed,
\* no converted artifact and no discovery, and is not counted as processed,
\* while another page of the run went through all of its steps
C33_Witness ==
    \E r \in Runs : \E i \in DOMAIN tasks[r] :
        LET t == tasks[r][i] IN
        /\ t.at = "done" /\ t.e # Unset
        /\ LastCalled(r, t) = Place("save_html")
        /\ saves[r][t.url]["md"] = <<>>
        /\ Pipeline(r, i) \notin reached[r].processed
        /\ \E u \in env.urls :
               /\ u # t.url
               /\ \A op \in PortOps : calls[r][u][op] = 1

\* ------------------------------------------------------------------------
\* the depth a page is dequeued at

\* the length of the shortest link path from the seed of run r to page u
Distance(r, u) ==
    CHOOSE n \in 0..Cardinality(env.urls) :
        /\ u \in Within({start_url[r]}, n)
        /\ \A m \in 0..(n - 1) : u \notin Within({start_url[r]}, m)

\* C34: while every fetch returns HTML and no port call raises, every page
\* is dequeued at its least link distance from the seed, in whatever order
\* the pipelines of a batch complete.
C34_MinimalDepth ==
    \A r \in Runs :
        AllSucceeded(r)
            => \A i \in DOMAIN tasks[r] :
                   tasks[r][i].depth = Distance(r, tasks[r][i].url)

\* ------------------------------------------------------------------------
\* the seed in visited_urls and the links extract_links returns

\* the URL strings of a site of two pages: the home page answers under
\* https://s.io/ and under https://s.io
SeedURLs == {"https://s.io/", "https://s.io", "https://s.io/a"}

\* a URL string cut at its delimiters, as urlparse and urljoin read it
Spell(u) ==
    CASE u = "https://s.io/" -> <<"https", ":", "/", "/", "s.io", "/">>
      [] u = "https://s.io" -> <<"https", ":", "/", "/", "s.io">>
      [] u = "https://s.io/a" -> <<"https", ":", "/", "/", "s.io", "/", "a">>

\* the string that is cut into these pieces
Text(pieces) == CHOOSE u \in SeedURLs : Spell(u) = pieces

\* the page a URL string is answered with
PageOf(u) == IF u = "https://s.io/a" THEN "a" ELSE "home"

\* the href values of the anchors of a page: the home page links to /a, and
\* page a links back to the home page with href="/"
Anchors(u) ==
    IF PageOf(u) = "home" THEN <<<<"/", "a">>>> ELSE <<<<"/">>>>

\* lines 147-161: valid_links for a document given as its href values
RECURSIVE extract_links(_, _, _)
extract_links(html, current_url, base_domain) ==
    IF html = <<>> THEN <<>>
    ELSE Link(Head(html), current_url, base_domain)
             \o extract_links(Tail(html), current_url, base_domain)

\* what the pipeline gets from extract_links(html, url, base_domain) for the
\* page at u, base_domain being urlparse(start_url).netloc (line 52)
LinksOf(u, seed) ==
    LET links == extract_links(Anchors(u), Spell(u),
                               urlparse(Spell(seed), "").netloc)
    IN  [j \in DOMAIN links |-> Text(links[j])]

\* one call of run_scraping for the default target on this site; every port
\* call can fail
InitSeed ==
    /\ settings \in Configurations
    /\ env = [runs |-> {1}, requests |-> {None}, urls |-> SeedURLs,
              site |-> [u \in SeedURLs |-> {LinksOf(u, DefaultTarget)}],
              raising |-> PortOps,
              cleaned |-> {Content}]
    /\ Start
    /\ api = Idle /\ disk = Idle /\ page = Idle /\ text = Idle
    /\ browser = Idle

SpecSeed == InitSeed /\ [][Next]_vars

\* a URL string as extract_links returns it: no fragment, no trailing slash
Normal(u) == Text(RStrip(Before(Spell(u), "#")))

\* the number of calls of fetch_page run r made for the URLs of U
RECURSIVE Fetches(_, _)
Fetches(r, U) ==
    IF U = {} THEN 0
    ELSE LET u == CHOOSE v \in U : TRUE IN
         calls[r][u]["fetch_page"] + Fetches(r, U \ {u})

\* C35: the seed is in visited_urls in the form extract_links returns, and a
\* link back to the seed page does not bring the seed page into the frontier
\* or to fetch_page a second time.
C35_SeedNormalised ==
    \A r \in Runs :
        /\ (start_url[r] \in SeedURLs /\ start_url[r] \in visited_urls[r])
               => Normal(start_url[r]) \in visited_urls[r]
        /\ \A j \in DOMAIN to_visit[r] :
               PageOf(to_visit[r][j].url) = "home"
                   => to_visit[r][j].depth = 0
        /\ Fetches(r, {u \in SeedURLs : PageOf(u) = "home"}) <= 1

\* ------------------------------------------------------------------------
\* SeleniumScraperService (src/app/core/scraper/service.py) as the scraper
\* port of the interactor.  start_session, fetch_page and stop_session hand
\* _init_driver_sync, _fetch_page_sync and _quit_driver_sync to a worker
\* thread (asyncio.to_thread, lines 57-67); the coroutine resumes with what
\* the thread returned.  One step of a thread is a block of the code that
\* holds _driver_lock, or a block between two such.

\* `attempts < 5` (line 184)
BLOCK_ATTEMPTS == 5

\* self._driver is None
NoDriver == [alive |-> FALSE, tabs |-> <<>>, current |-> 0]

\* the service after __init__ (lines 53-55): no driver, no thread
NoSession ==
    [on |-> TRUE, driver |-> NoDriver, handles |-> 0,
     init |-> [r \in Runs |-> "idle"],
     quit |-> [r \in Runs |-> FALSE],
     fetch |-> <<>>]

\* driver.window_handles as a set
Handles(driver) == {driver.tabs[j].handle : j \in DOMAIN driver.tabs}

\* the tab with handle h
Tab(driver, h) ==
    driver.tabs[CHOOSE j \in DOMAIN driver.tabs : driver.tabs[j].handle = h]

\* the thread that runs _fetch_page_sync for pipeline i of run r; its record
\* holds the url it was called with, its place in the code, window_handle,
\* html_content, and as history the window that was current before it read
\* the page it returns (was) and the address of the tab it read (got)
Thread(r, i) == <<r, tasks[r][i].batch, i>>

\* f with f[k] = v
With(f, k, v) == [x \in DOMAIN f \cup {k} |-> IF x = k THEN v ELSE f[x]]

\* lines 74-78: the thread of start_session looks at self._driver
InitCheck(r) ==
    /\ browser.on
    /\ pc[r] = "start_session"
    /\ browser.init[r] = "idle"
    /\ browser' = [browser EXCEPT !.init[r] =
                       IF browser.driver.alive THEN "true" ELSE "creating"]
    /\ UNCHANGED <<crawl, api, disk, page, text>>

\* lines 80-106: uc.Chrome(...) gives a browser with one tab, or raises; or
\* set_page_load_timeout raises when self._driver is already set
InitCreate(r, how) ==
    /\ browser.on
    /\ browser.init[r] = "creating"
    /\ how \in {"ok", "late", "no"}
    /\ browser' =
           IF how = "no" THEN [browser EXCEPT !.init[r] = "false"]
           ELSE [browser EXCEPT
                    !.driver = [alive |-> TRUE,
                                tabs |-> <<[handle |-> browser.handles + 1,
                                            url |-> "about:blank"]>>,
                                current |-> browser.handles + 1],
                    !.handles = @ + 1,
                    !.init[r] = IF how = "ok" THEN "true" ELSE "false"]
    /\ UNCHANGED <<crawl, api, disk, page, text>>

\* the coroutine resumes after `await self.scraper.start_session()`
Started(r) ==
    /\ browser.on
    /\ browser.init[r] = "true"
    /\ StartSessionTrue(r)

StartFailed(r) ==
    /\ browser.on
    /\ browser.init[r] = "false"
    /\ StartSessionFalse(r)

\* lines 108-120: the thread of stop_session; quit() closes every tab, and
\* self._driver is None afterwards whether quit() raised or not
QuitDriver(r) ==
    /\ browser.on
    /\ pc[r] = "stop_session"
    /\ ~browser.quit[r]
    /\ browser' = [browser EXCEPT !.driver = NoDriver, !.quit[r] = TRUE]
    /\ UNCHANGED <<crawl, api, disk, page, text>>

\* the coroutine resumes after `await self.scraper.stop_session()`
Stopped(r) ==
    /\ browser.on
    /\ browser.quit[r]
    /\ StopSessionReturns(r)

\* lines 127-145: without a driver the thread returns None; with one it
\* opens a tab, takes the last handle for it, switches to it and navigates;
\* `loaded` is whether driver.get(url) returned or raised
FetchOpen(r, i, loaded) ==
    /\ browser.on
    /\ i \in DOMAIN tasks[r]
    /\ tasks[r][i].at = "fetch_page"
    /\ Thread(r, i) \notin DOMAIN browser.fetch
    /\ loaded \in BOOLEAN
    /\ IF ~browser.driver.alive
       THEN browser' = [browser EXCEPT !.fetch =
                With(@, Thread(r, i),
                     [url |-> tasks[r][i].url, phase |-> "returned",
                      handle |-> 0, was |-> 0, html |-> None, got |-> None,
                      attempts |-> 0])]
       ELSE LET h == browser.handles + 1 IN
            browser' = [browser EXCEPT
                !.handles = h,
                !.driver.tabs =
                    Append(@, [handle |-> h,
                               url |-> IF loaded THEN tasks[r][i].url
                                       ELSE "about:blank"]),
                !.driver.current = h,
                !.fetch =
                    With(@, Thread(r, i),
                         [url |-> tasks[r][i].url,
                          phase |-> IF loaded THEN "wait" ELSE "close",
                          handle |-> h, was |-> h, html |-> None,
                          got |-> None, attempts |-> 0])]
    /\ UNCHANGED <<crawl, api, disk, page, text>>

\* page_source read without switching to the thread's window
FetchWait_NoSwitch(r, i, read) ==
    /\ browser.on
    /\ i \in DOMAIN tasks[r]
    /\ Thread(r, i) \in DOMAIN browser.fetch
    /\ read \in {"page", "blocked", "error"}
    /\ LET th == browser.fetch[Thread(r, i)]
           d == browser.driver
       IN
       /\ th.phase = "wait"
       /\ IF ~d.alive \/ d.current \notin Handles(d) \/ read = "error"
          THEN browser' = [browser EXCEPT
                   !.fetch[Thread(r, i)] =
                       [th EXCEPT !.phase = "close", !.attempts = 0]]
          ELSE browser' = [browser EXCEPT
                   !.fetch[Thread(r, i)] =
                       IF read = "page"
                       THEN [th EXCEPT !.phase = "close",
                                       !.was = d.current,
                                       !.html = "<html>",
                                       !.got = Tab(d, d.current).url,
                                       !.attempts = 0]
                       ELSE IF th.attempts < BLOCK_ATTEMPTS
                       THEN [th EXCEPT !.attempts = @ + 1]
                       ELSE [th EXCEPT !.phase = "close", !.attempts = 0]]
    /\ UNCHANGED <<crawl, api, disk, page, text>>

\* lines 175-204: one read of the page under the lock: switch to the
\* thread's window and take page_source.  A driver exception gives None; a
\* page with a block indicator is read again while attempts < 5, and gives
\* None after that; any other page is returned
FetchWait(r, i, read) ==
    /\ browser.on
    /\ i \in DOMAIN tasks[r]
    /\ Thread(r, i) \in DOMAIN browser.fetch
    /\ read \in {"page", "blocked", "error"}
    /\ LET th == browser.fetch[Thread(r, i)]
           d == browser.driver
       IN
       /\ th.phase = "wait"
       /\ IF ~d.alive \/ th.handle \notin Handles(d) \/ read = "error"
          THEN browser' = [browser EXCEPT
                   !.fetch[Thread(r, i)] =
                       [th EXCEPT !.phase = "close", !.attempts = 0]]
          ELSE browser' = [browser EXCEPT
                   !.driver.current = th.handle,
                   !.fetch[Thread(r, i)] =
                       IF read = "page"
                       THEN [th EXCEPT !.phase = "close",
                                       !.was = d.current,
                                       !.html = "<html>",
                                       !.got = Tab(d, th.handle).url,
                                       !.attempts = 0]
                       ELSE IF th.attempts < BLOCK_ATTEMPTS
                       THEN [th EXCEPT !.attempts = @ + 1]
                       ELSE [th EXCEPT !.phase = "close", !.attempts = 0]]
    /\ UNCHANGED <<crawl, api, disk, page, text>>

\* lines 158-173: the finally block closes the thread's tab when the driver
\* still has it, switches to the first tab left, and the thread returns
FetchClose(r, i) ==
    /\ browser.on
    /\ i \in DOMAIN tasks[r]
    /\ Thread(r, i) \in DOMAIN browser.fetch
    /\ LET th == browser.fetch[Thread(r, i)]
           d == browser.driver
           IsOther(tab) == tab.handle # th.handle
           left == SelectSeq(d.tabs, IsOther)
       IN
       /\ th.phase = "close"
       /\ IF d.alive /\ th.handle \in Handles(d)
          THEN browser' = [browser EXCEPT
                   !.driver.tabs = left,
                   !.driver.current =
                       IF left # <<>> THEN left[1].handle ELSE th.handle,
                   !.fetch[Thread(r, i)].phase = "returned"]
          ELSE browser' = [browser EXCEPT
                   !.fetch[Thread(r, i)].phase = "returned"]
    /\ UNCHANGED <<crawl, api, disk, page, text>>

\* the coroutine resumes after `await self.scraper.fetch_page(url)`
Fetched(r, i) ==
    /\ browser.on
    /\ i \in DOMAIN tasks[r]
    /\ Thread(r, i) \in DOMAIN browser.fetch
    /\ browser.fetch[Thread(r, i)].phase = "returned"
    /\ FetchReturns(r, i, browser.fetch[Thread(r, i)].html)

NextSession ==
    \E r \in Runs :
        \/ \E url \in URLs \cup {None} : Call(r, url)
        \/ InitCheck(r)
        \/ \E how \in {"ok", "late", "no"} : InitCreate(r, how)
        \/ Started(r)
        \/ StartFailed(r)
        \/ BatchDone(r)
        \/ QuitDriver(r)
        \/ Stopped(r)
        \/ \E i \in TaskIds :
            \/ Admit(r, i)
            \/ \E loaded \in BOOLEAN : FetchOpen(r, i, loaded)
            \/ \E read \in {"page", "blocked", "error"} : FetchWait(r, i, read)
            \/ FetchClose(r, i)
            \/ Fetched(r, i)
            \/ \E content \in env.cleaned : StepReturns(r, i, content)
            \/ SaveMdReturns(r, i)
            \/ \E links \in AllLinkLists : ExtractLinksReturns(r, i, links)
            \/ \E msg \in Messages : PortRaises(r, i, msg)

\* the home page links to a and b, which link nowhere
TabsSite ==
    [u \in SmallSite |->
        IF u = "https://s.io/"
        THEN {<<"https://s.io/a", "https://s.io/b">>} ELSE {<<>>}]

\* one call of run_scraping for the default target, to depth 1 with two
\* pipelines at a time; of the other ports' calls the first save can fail
InitTabs ==
    /\ settings = [MAX_CONCURRENT_REQUESTS |-> 2, MAX_CRAWL_DEPTH |-> 1,
                   TARGET_URL |-> DefaultTarget]
    /\ env = [runs |-> {1}, requests |-> {None}, urls |-> SmallSite,
              site |-> TabsSite,
              raising |-> {"save_html"},
              cleaned |-> {Content}]
    /\ Start
    /\ api = Idle /\ disk = Idle /\ page = Idle /\ text = Idle
    /\ browser = NoSession

SpecTabs == InitTabs /\ [][NextSession]_vars

\* two calls of run_scraping on the one interactor of the application
\* (runner/setup.py:27, dependables.py:13-14), for the default target, to
\* depth 1 with one pipeline at a time
InitSession ==
    /\ settings = [MAX_CONCURRENT_REQUESTS |-> 1, MAX_CRAWL_DEPTH |-> 1,
                   TARGET_URL |-> DefaultTarget]
    /\ env = [runs |-> Runs, requests |-> {None}, urls |-> SmallSite,
              site |-> [u \in SmallSite |->
                           IF u = "https://s.io/"
                           THEN {<<"https://s.io/a">>} ELSE {<<>>}],
              raising |-> {"save_html"},
              cleaned |-> {Content}]
    /\ Start
    /\ api = Idle /\ disk = Idle /\ page = Idle /\ text = Idle
    /\ browser = NoSession

SpecSession == InitSession /\ [][NextSession]_vars

\* the threads of fetch_page that have a tab open
Holding ==
    {k \in DOMAIN browser.fetch :
        browser.fetch[k].phase \in {"wait", "close"}
            /\ browser.fetch[k].handle \in Handles(browser.driver)}

\* C36: while a run that started its session is in its loop, with pipelines
\* not finished or URLs in its frontier, the browser session is open: the
\* stop_session of another run does not close it.
C36_SessionStaysOpen ==
    \A r \in Runs :
        (/\ browser.on
         /\ startResult[r] = "true"
         /\ pc[r] = "gather"
         /\ \/ to_visit[r] # <<>>
            \/ \E i \in DOMAIN tasks[r] : tasks[r][i].at # "done")
            => browser.driver.alive

BatchSite ==
    [u \in URLs |->
        CASE u = "https://s.io/" -> {<<"https://s.io/a", "https://s.io/b">>}
          [] u = "https://s.io/c" -> {<<>>}
          [] OTHER -> {<<"https://s.io/", "https://s.io/c">>}]

\* one call of run_scraping for the default target on this site, to depth 2
\* with two pipelines at a time; every port call can fail
InitBatch ==
    /\ settings = [MAX_CONCURRENT_REQUESTS |-> 2, MAX_CRAWL_DEPTH |-> 2,
                   TARGET_URL |-> DefaultTarget]
    /\ env = [runs |-> {1}, requests |-> {None}, urls |-> URLs,
              site |-> BatchSite,
              raising |-> PortOps,
              cleaned |-> {Content}]
    /\ Start
    /\ api = Idle /\ disk = Idle /\ page = Idle /\ text = Idle
    /\ browser = Idle

SpecBatch == InitBatch /\ [][Next]_vars

\* pipeline i of run r ends in this step without having gone through: its
\* fetch came back empty or one of its port calls raised
Fails(r, i) ==
    /\ i \in DOMAIN tasks'[r]
    /\ tasks'[r][i].batch = tasks[r][i].batch
    /\ tasks[r][i].at # "done"
    /\ tasks'[r][i].at = "done"
    /\ \/ tasks'[r][i].e # Unset
       \/ Pipeline(r, i) \in reached'[r].failed

\* C37: the step in which a pipeline ends on an empty fetch or an exception
\* leaves every other pipeline of the batch, the frontier, visited_urls and
\* the position of run_scraping as they are, and the count of processed
\* pages too; and a run that returns after its loop has fetched every URL
\* that a pipeline appended to the frontier.
C37_FailureIsolation ==
    /\ [][\A r \in Runs : \A i \in DOMAIN tasks[r] :
              Fails(r, i)
                  => /\ \A j \in DOMAIN tasks[r] \ {i} :
                            j \in DOMAIN tasks'[r]
                                /\ tasks'[r][j] = tasks[r][j]
                     /\ to_visit'[r] = to_visit[r]
                     /\ visited_urls'[r] = visited_urls[r]
                     /\ pc'[r] = pc[r]
                     /\ stats'[r].processed = stats[r].processed
                     /\ reached'[r].processed = reached[r].processed
                     /\ saves' = saves]_vars
    /\ [](\A r \in Runs :
              (Returned(r) /\ startResult[r] = "true")
                  => \A d \in discovered[r] :
                         /\ d[1] \in visited_urls[r]
                         /\ calls[r][d[1]]["fetch_page"] = 1)

\* in one batch a port call of the first pipeline raised and the second
\* pipeline counted its page as processed, and a link appended in that batch
\* was taken up by a later batch
C37_Witness ==
    \E r \in Runs : \E b \in 1..batchNo[r] :
        /\ <<b, 1>> \in reached[r].caught
        /\ <<b, 2>> \in reached[r].processed
        /\ \E d \in discovered[r] :
               /\ d[2] = b
               /\ \E k \in (b + 1)..batchNo[r] : <<d[1], k>> \in drainedIn[r]
               /\ calls[r][d[1]]["fetch_page"] = 1

\* ------------------------------------------------------------------------
\* the permits of the semaphore

\* the pipelines in flight, over all runs
AllInFlight == {<<r, i>> \in Runs \X TaskIds : i \in InFlight(r)}

\* C38: the permits of the semaphore are conserved: the free permits and the
\* pipelines inside `async with self.semaphore` add up to
\* MAX_CONCURRENT_REQUESTS, so with no pipeline in flight every permit is
\* free; a run that has ended holds none, whether its pipelines ended on
\* success, on an empty fetch or on an exception.
C38_PermitsConserved ==
    /\ semaphore + Cardinality(AllInFlight) = MAX_CONCURRENT_REQUESTS
    /\ AllInFlight = {} => semaphore = MAX_CONCURRENT_REQUESTS
    /\ \A r \in Runs :
           pc[r] \in {"stop_session", "returned", "raised"}
               => InFlight(r) = {}

\* a run has returned after a processed page, an empty fetch and an
\* exception, and the pipelines of the other run hold every permit
C38_Witness ==
    \E r, o \in Runs :
        /\ r # o
        /\ Returned(r)
        /\ stats[r].processed >= 1
        /\ stats[r].failed >= 1
        /\ stats[r].errors # <<>>
        /\ Cardinality(InFlight(o)) = MAX_CONCURRENT_REQUESTS
        /\ MAX_CONCURRENT_REQUESTS = 2
        /\ semaphore = 0

\* ------------------------------------------------------------------------
\* the status of the jobs in the task store

\* the API in front of one interactor with two jobs that can run at the same
\* time, each for the default target on a site whose pages have no links;
\* fetch_page and extract_links can fail
InitJobs ==
    /\ settings = [MAX_CONCURRENT_REQUESTS |-> 1, MAX_CRAWL_DEPTH |-> 1,
                   TARGET_URL |-> DefaultTarget]
    /\ env = [runs |-> Runs, requests |-> {DefaultTarget},
              urls |-> SmallSite,
              site |-> [u \in SmallSite |-> {<<>>}],
              raising |-> {"fetch_page", "extract_links"},
              cleaned |-> {Content}]
    /\ Start
    /\ api = NoJobs
    /\ disk = Idle /\ page = Idle /\ text = Idle /\ browser = Idle

SpecJobs == InitJobs /\ [][NextApi]_vars

\* the status values an entry ends with
Terminal == {"completed", "failed"}

\* run r ends in this step
Ends(r) ==
    pc[r] \notin {"returned", "raised"} /\ pc'[r] \in {"returned", "raised"}

\* C40: every entry of the task store starts as queued and changes at most
\* once, in the step in which the run of its job ends, to completed or to
\* failed; an entry with a terminal status never changes again; and the step
\* that changes the entry of one job leaves the entries of all other jobs as
\* they are.
C40_StatusOneWay ==
    [][api.on =>
        /\ \A id \in DOMAIN api'.tasks_store \ DOMAIN api.tasks_store :
               api'.tasks_store[id].status = "queued"
        /\ \A id \in DOMAIN api.tasks_store :
               /\ id \in DOMAIN api'.tasks_store
               /\ api.tasks_store[id].status \in {"queued"} \cup Terminal
               /\ api.tasks_store[id].status \in Terminal
                      => api'.tasks_store[id] = api.tasks_store[id]
               /\ api'.tasks_store[id] # api.tasks_store[id]
                      => /\ api.tasks_store[id].status = "queued"
                         /\ api'.tasks_store[id].status \in Terminal
                         /\ \E r \in Runs : api.job[r] = id /\ Ends(r)
                         /\ \A o \in DOMAIN api.tasks_store \ {id} :
                                api'.tasks_store[o] = api.tasks_store[o]
        /\ \A r \in Runs :
               (api.job[r] # None /\ Ends(r))
                   => api'.tasks_store[api.job[r]].status \in Terminal
      ]_vars

\* of two jobs triggered one after the other, one has ended as completed
\* with its page counts while the run of the other is at work and its entry
\* is queued
C40_Witness ==
    /\ api.on
    /\ \E r, o \in Runs :
           /\ r # o
           /\ api.job[r] # None /\ api.job[o] # None
           /\ Entry(r).status = "completed"
           /\ "pages_processed" \in DOMAIN Entry(r)
           /\ Entry(o).status = "queued"
           /\ pc[o] = "gather"

====
